---- MODULE Spec2Model ----
(***************************************************************************)
(* A model of the A/B evaluation pipeline of owl-eval: the comparison      *)
(* store and the evaluation record store of ABTestingFramework, the        *)
(* aggregation of EvaluationAnalyzer, and the pairwise binomial test of    *)
(* StatisticalTests.                                                       *)
(*                                                                         *)
(* Numbers.  Scores 0, 0.5 and 1 are held doubled (0, 1, 2).  A fraction   *)
(* is a record [num, den] in lowest terms, so that two fractions are equal *)
(* exactly when the records are.  A standard error is held as the fraction *)
(* it is the square root of.  All arithmetic is exact: the rounding of     *)
(* IEEE doubles is not modelled.                                           *)
(***************************************************************************)
EXTENDS Integers, Sequences, FiniteSets, TLC

(***************************************************************************)
(* Bounds of the model.                                                    *)
(***************************************************************************)
MaxComparisons == 2
MaxResults == 2
MaxWins == 10
MaxTies == 2
MaxDiscordant == 13
MaxBootstrap == 3
MaxScores == 2
MaxRecords == 3
MaxTests == 3
MaxRatings == 5
MaxKappaHundredths == 100
MaxReportResults == 3
MaxAggregateResults == 3

ModelNames == {"m1", "m2"}
EvaluatorIds == {"e1", "e2"}
Labels == {"A", "B"}
Choices == {"A", "B", "Equal"}

\* The dimensions the analysis enumerates (analyzer.py:121).
CanonicalDimensions ==
    {"overall_quality", "controllability", "visual_quality", "temporal_consistency"}

\* The dimension_scores a submission may carry: any mapping from dimension
\* names to choices.  "pacing" stands for a name outside the canonical set.
ScoreInputs ==
    [{"overall_quality"} -> Choices]
        \cup [{"overall_quality", "controllability"} -> {"B"}]
        \cup [{"pacing"} -> {"A"}]

\* comparison_id values a submission may carry: the ids that can exist and
\* one more, which never resolves.
ComparisonIdInputs == 1..(MaxComparisons + 1)

NoValue == "none"

VARIABLES
    comparisons,            \* comparisons_dir: comparison_id -> VideoComparison
    results,                \* results_dir: the result files, in listing order
    database,               \* the "Comparison" table of eval/evaluation/ab_testing.py
    analyzer_pc,            \* "none": no analyzer; "loaded": constructed;
                            \* "reported": calculate_model_performance returned
    analyzer_comparisons,   \* EvaluationAnalyzer.comparisons
    analyzer_results,       \* EvaluationAnalyzer.results
    performance,            \* the rows calculate_model_performance returned
    wins_a, wins_b, ties, exclude_ties,   \* arguments of binomial_test
    binom_pc,               \* "called" or "returned"
    binom_out,              \* what binomial_test returned
    call_pc,                \* a call of another StatisticalTests method:
                            \* "none", "called", "returned" or "raised"
    call_args,              \* its arguments, a record
    call_out,               \* what it returned
    reliability,            \* what calculate_inter_rater_reliability returned
    np_random,              \* the state of numpy's global generator
    quality,                \* what analyze_evaluation_quality returned
    report,                 \* generate_report: the files written, what it raised
    scenario_performance,   \* the rows analyze_by_scenario returned
    statistics              \* run_statistical_tests: its binomial_results

vars == <<comparisons, results, database, analyzer_pc, analyzer_comparisons,
          analyzer_results, performance, wins_a, wins_b, ties, exclude_ties,
          binom_pc, binom_out, call_pc, call_args, call_out, reliability,
          np_random, quality, report, scenario_performance,
          statistics>>

store_vars == <<comparisons, results, database>>
analyzer_vars == <<analyzer_pc, analyzer_comparisons, analyzer_results, performance>>
binom_vars == <<wins_a, wins_b, ties, exclude_ties, binom_pc, binom_out>>
call_vars == <<call_pc, call_args, call_out>>
report_vars == <<quality, report, scenario_performance, statistics>>

(***************************************************************************)
(* Fractions.                                                              *)
(***************************************************************************)
RECURSIVE GCD(_, _)
GCD(a, b) == IF b = 0 THEN a ELSE GCD(b, a % b)

\* n/d in lowest terms, for n >= 0 and d > 0.
Rat(n, d) == LET g == GCD(n, d) IN [num |-> n \div g, den |-> d \div g]

\* Not a number: no fraction in lowest terms has denominator 0.
NaN == [num |-> 0, den |-> 0]

RatLess(p, q) == p.num * q.den < q.num * p.den

RECURSIVE SumSeq(_)
SumSeq(s) == IF s = <<>> THEN 0 ELSE Head(s) + SumSeq(Tail(s))

(***************************************************************************)
(* ABTestingFramework (matrix-game-eval/evaluation/ab_testing.py).         *)
(***************************************************************************)

\* f"{comparison_id}_model_a_{model_name}.mp4" under videos_dir.
video_path(comparison_id, slot, model_name) ==
    [comparison_id |-> comparison_id, slot |-> slot, model_name |-> model_name]

\* The mutated label assignment: the swapped branch names model_b twice.
randomized_labels_swap_bug(model_a, model_b, swap) ==
    IF swap THEN [A |-> model_b, B |-> model_b]
            ELSE [A |-> model_a, B |-> model_b]

\* The labels of the two branches of "if randomize_order and random() < 0.5".
randomized_labels_of(model_a, model_b, swap) ==
    IF swap THEN [A |-> model_b, B |-> model_a]
            ELSE [A |-> model_a, B |-> model_b]

\* The mutated comparison: the labels are swapped, the displayed videos
\* are not.
new_comparison_labels_only(comparison_id, model_a, model_b, swap) ==
    [comparison_id |-> comparison_id,
     model_a_name |-> model_a,
     model_b_name |-> model_b,
     model_a_video_path |-> video_path(comparison_id, "model_a", model_a),
     model_b_video_path |-> video_path(comparison_id, "model_b", model_b),
     randomized_labels |-> randomized_labels_of(model_a, model_b, swap)]

\* The VideoComparison create_comparison builds.  swap is the outcome of
\* "randomize_order and random.random() < 0.5".
new_comparison(comparison_id, model_a, model_b, swap) ==
    LET video_a_path == video_path(comparison_id, "model_a", model_a)
        video_b_path == video_path(comparison_id, "model_b", model_b)
    IN  [comparison_id |-> comparison_id,
         model_a_name |-> model_a,
         model_b_name |-> model_b,
         model_a_video_path |-> IF swap THEN video_b_path ELSE video_a_path,
         model_b_video_path |-> IF swap THEN video_a_path ELSE video_b_path,
         randomized_labels |-> randomized_labels_of(model_a, model_b, swap)]

\* VideoComparison.to_dict: the JSON object _save_comparison writes (the
\* scenario fields and created_at carry no behaviour modelled here).
to_dict(comparison) ==
    [comparison_id |-> comparison.comparison_id,
     model_a_name |-> comparison.model_a_name,
     model_b_name |-> comparison.model_b_name,
     model_a_video_path |-> comparison.model_a_video_path,
     model_b_video_path |-> comparison.model_b_video_path,
     randomized_labels |-> comparison.randomized_labels]

\* create_comparison: a fresh uuid4 id (here the next index), the two
\* videos, the coin flip, and _save_comparison.  Nothing compares the two
\* model names: scripts/cli.py:103 itself passes the same model twice when no
\* baseline is configured.
create_comparison(model_a, model_b, randomize_order, coin) ==
    /\ analyzer_pc = "none"
    /\ Len(comparisons) < MaxComparisons
    /\ LET comparison_id == Len(comparisons) + 1
           swap == randomize_order /\ coin
       IN  comparisons' =
               Append(comparisons,
                      to_dict(new_comparison(comparison_id, model_a, model_b, swap)))
    /\ UNCHANGED <<results, database, analyzer_vars, binom_vars, call_vars, reliability, np_random, report_vars>>

\* record_evaluation_result: builds the EvaluationResult and writes it to
\* results_dir under a fresh uuid4 name.  comparison_id is not looked up.
record_evaluation_result(comparison_id, evaluator_id, dimension_scores) ==
    /\ analyzer_pc = "none"
    /\ Len(results) < MaxResults
    /\ results' = Append(results,
                         [comparison_id |-> comparison_id,
                          evaluator_id |-> evaluator_id,
                          dimension_scores |-> dimension_scores])
    /\ UNCHANGED <<comparisons, database, analyzer_vars, binom_vars, call_vars, reliability, np_random, report_vars>>

\* get_comparison on an existing file: json.load, then VideoComparison(**data).
get_comparison(comparison_id) ==
    LET data == comparisons[comparison_id]
    IN  [comparison_id |-> data.comparison_id,
         model_a_name |-> data.model_a_name,
         model_b_name |-> data.model_b_name,
         model_a_video_path |-> data.model_a_video_path,
         model_b_video_path |-> data.model_b_video_path,
         randomized_labels |-> data.randomized_labels]

\* _load_all_comparisons: every file of comparisons_dir, keyed by its id.
load_all_comparisons == [comp_id \in DOMAIN comparisons |-> get_comparison(comp_id)]

\* _load_all_results: every file of results_dir, in listing order.
load_all_results ==
    [i \in DOMAIN results |->
        [comparison_id |-> results[i].comparison_id,
         evaluator_id |-> results[i].evaluator_id,
         dimension_scores |-> results[i].dimension_scores]]

(***************************************************************************)
(* EvaluationAnalyzer (matrix-game-eval/analysis/analyzer.py).             *)
(***************************************************************************)

\* model_scores[model][dimension].append(score) on the defaultdict: the
\* list exists only once something was appended to it.
append_score(model_scores, model, dimension, score) ==
    LET key == <<model, dimension>>
    IN  IF key \in DOMAIN model_scores
            THEN [model_scores EXCEPT ![key] = Append(@, score)]
            ELSE model_scores @@ (key :> <<score>>)

\* The mutated scoring: a choice outside "A", "B", "Equal" is skipped.
score_choice_known_only(model_scores, comparison, dimension, choice) ==
    LET model_a_actual == comparison.randomized_labels["A"]
        model_b_actual == comparison.randomized_labels["B"]
    IN  IF choice = "A"
            THEN append_score(append_score(model_scores, model_a_actual, dimension, 2),
                              model_b_actual, dimension, 0)
        ELSE IF choice = "B"
            THEN append_score(append_score(model_scores, model_a_actual, dimension, 0),
                              model_b_actual, dimension, 2)
        ELSE IF choice = "Equal"
            THEN append_score(append_score(model_scores, model_a_actual, dimension, 1),
                              model_b_actual, dimension, 1)
        ELSE model_scores

\* One (dimension, choice) item of result.dimension_scores: 1/0 for "A",
\* 0/1 for "B", 0.5/0.5 otherwise (scores doubled).
score_choice(model_scores, comparison, dimension, choice) ==
    LET model_a_actual == comparison.randomized_labels["A"]
        model_b_actual == comparison.randomized_labels["B"]
    IN  IF choice = "A"
            THEN append_score(append_score(model_scores, model_a_actual, dimension, 2),
                              model_b_actual, dimension, 0)
        ELSE IF choice = "B"
            THEN append_score(append_score(model_scores, model_a_actual, dimension, 0),
                              model_b_actual, dimension, 2)
        ELSE append_score(append_score(model_scores, model_a_actual, dimension, 1),
                          model_b_actual, dimension, 1)

\* "for dimension, choice in result.dimension_scores.items()".  The lists
\* of different dimensions are disjoint, so the order of the items does not
\* show in model_scores.
RECURSIVE score_dimensions(_, _, _, _)
score_dimensions(model_scores, comparison, dimension_scores, todo) ==
    IF todo = {} THEN model_scores
    ELSE LET dimension == CHOOSE d \in todo : TRUE
         IN  score_dimensions(
                 score_choice(model_scores, comparison, dimension,
                              dimension_scores[dimension]),
                 comparison, dimension_scores, todo \ {dimension})

\* The body of "for result in self.results": comparisons.get, continue when
\* there is none, else score every item.
score_result(model_scores, comps, result) ==
    IF result.comparison_id \notin DOMAIN comps THEN model_scores
    ELSE score_dimensions(model_scores, comps[result.comparison_id],
                          result.dimension_scores, DOMAIN result.dimension_scores)

\* model_scores after the loop over res[i..], in list order.
RECURSIVE score_results(_, _, _, _)
score_results(model_scores, comps, res, i) ==
    IF i > Len(res) THEN model_scores
    ELSE score_results(score_result(model_scores, comps, res[i]), comps, res, i + 1)

\* np.mean(scores).
mean_of(scores) == Rat(SumSeq(scores), 2 * Len(scores))

\* The sum over the list of (x - mean)**2, in units of 1/(2n)**2.
RECURSIVE sum_sq_dev(_, _, _)
sum_sq_dev(scores, n, total) ==
    IF scores = <<>> THEN 0
    ELSE (n * Head(scores) - total) * (n * Head(scores) - total)
             + sum_sq_dev(Tail(scores), n, total)

\* np.std(scores) / np.sqrt(len(scores)), as the fraction under the root:
\* (sum (x - mean)**2 / n) / n.
std_error_of(scores) ==
    LET n == Len(scores)
    IN  [sqrt_of |-> Rat(sum_sq_dev(scores, n, SumSeq(scores)), 4 * n * n * n * n)]

\* The mutated mean: the first score stands for the list.
performance_row_first_score(model_scores, key) ==
    [model |-> key[1], dimension |-> key[2],
     win_rate |-> Rat(Head(model_scores[key]), 2),
     num_evaluations |-> Len(model_scores[key]),
     std_error |-> std_error_of(model_scores[key])]

\* One appended row of performance_data.
performance_row(model_scores, key) ==
    [model |-> key[1], dimension |-> key[2],
     win_rate |-> mean_of(model_scores[key]),
     num_evaluations |-> Len(model_scores[key]),
     std_error |-> std_error_of(model_scores[key])]

\* The mutated row loop: every model seen gets a row for every canonical
\* dimension, an empty cell with win_rate 0 and n 0.
performance_rows_zero_fill(model_scores) ==
    LET models == { k[1] : k \in DOMAIN model_scores }
        filled == { performance_row(model_scores, key) :
                        key \in { k \in DOMAIN model_scores : model_scores[k] # <<>> } }
        empty == { <<m, d>> \in models \X CanonicalDimensions :
                       <<m, d>> \notin DOMAIN model_scores }
    IN  filled \cup
        { [model |-> c[1], dimension |-> c[2], win_rate |-> Rat(0, 1),
           num_evaluations |-> 0, std_error |-> [sqrt_of |-> Rat(0, 1)]] :
              c \in empty }

\* "for model, dimensions in model_scores.items(): for dimension, scores
\* in dimensions.items(): if scores: ...".  The DataFrame is held as the set
\* of its rows; the order of the rows is not modelled.
performance_rows(model_scores) ==
    { performance_row(model_scores, key) :
          key \in { k \in DOMAIN model_scores : model_scores[k] # <<>> } }

\* calculate_model_performance over the analyzer's comparisons and results.
model_performance(comps, res) ==
    performance_rows(score_results(<<>>, comps, res, 1))

\* performance_df.pivot(index='dimension', columns='model',
\* values='win_rate') at one cell: NaN where the frame has no row.
pivot_cell(rows, model, dimension) ==
    LET hit == { r \in rows : r.model = model /\ r.dimension = dimension }
    IN  IF hit = {} THEN NaN ELSE (CHOOSE r \in hit : TRUE).win_rate

\* EvaluationAnalyzer.__init__: _load_all_comparisons and _load_all_results.
new_analyzer ==
    /\ analyzer_pc = "none"
    /\ analyzer_pc' = "loaded"
    /\ analyzer_comparisons' = load_all_comparisons
    /\ analyzer_results' = load_all_results
    /\ UNCHANGED <<store_vars, performance, binom_vars, call_vars, reliability, np_random, report_vars>>

\* A call of calculate_model_performance on the analyzer.
calculate_model_performance ==
    /\ analyzer_pc \in {"loaded", "reported"}
    /\ analyzer_pc' = "reported"
    /\ performance' = model_performance(analyzer_comparisons, analyzer_results)
    /\ UNCHANGED <<store_vars, analyzer_comparisons, analyzer_results, binom_vars,
                   call_vars, reliability, np_random, report_vars>>

\* The analysis run ends (scripts/analyze_results.py returns).  An analyzer
\* reads the stores once, at construction, so a run is modelled as atomic
\* with respect to the stores: they are written between runs.
analyzer_exit ==
    /\ analyzer_pc # "none"
    /\ analyzer_pc' = "none"
    /\ analyzer_comparisons' = <<>>
    /\ analyzer_results' = <<>>
    /\ performance' = {}
    /\ UNCHANGED <<store_vars, binom_vars, call_vars, reliability, np_random, report_vars>>

(***************************************************************************)
(* The specification of the stores and the analyzer.                       *)
(***************************************************************************)
Init ==
    /\ comparisons = <<>>
    /\ database = <<>>
    /\ results = <<>>
    /\ analyzer_pc = "none"
    /\ analyzer_comparisons = <<>>
    /\ analyzer_results = <<>>
    /\ performance = {}
    /\ wins_a = 0 /\ wins_b = 0 /\ ties = 0 /\ exclude_ties = TRUE
    /\ binom_pc = "called"
    /\ binom_out = NoValue
    /\ call_pc = "none"
    /\ call_args = NoValue
    /\ call_out = NoValue
    /\ reliability = NoValue
    /\ np_random = 0
    /\ quality = NoValue
    /\ report = NoValue
    /\ scenario_performance = {}
    /\ statistics = NoValue

Next ==
    \/ \E model_a \in ModelNames, model_b \in ModelNames,
          randomize_order \in BOOLEAN, coin \in BOOLEAN :
            create_comparison(model_a, model_b, randomize_order, coin)
    \/ \E comparison_id \in ComparisonIdInputs, evaluator_id \in EvaluatorIds,
          dimension_scores \in ScoreInputs :
            record_evaluation_result(comparison_id, evaluator_id, dimension_scores)
    \/ new_analyzer
    \/ calculate_model_performance
    \/ analyzer_exit

Spec == Init /\ [][Next]_vars

(***************************************************************************)
(* StatisticalTests.binomial_test (eval/analysis/statistical_tests.py).    *)
(* Under p = 0.5 every probability of n trials is a multiple of 2^-n, and  *)
(* the probabilities below are held in that unit.  k is held doubled (k2). *)
(***************************************************************************)
RECURSIVE Pow2(_)
Pow2(n) == IF n = 0 THEN 1 ELSE 2 * Pow2(n - 1)

\* The binomial coefficient C(n, i).
RECURSIVE Binomial(_, _)
Binomial(n, i) ==
    IF i = 0 THEN 1 ELSE (Binomial(n, i - 1) * (n - i + 1)) \div i

\* The sum of C(n, j) for j in lo..hi.
RECURSIVE BinomialSum(_, _, _)
BinomialSum(n, lo, hi) ==
    IF lo > hi THEN 0 ELSE Binomial(n, lo) + BinomialSum(n, lo + 1, hi)

\* scipy's binom.pmf, binom.cdf and binom.sf at p = 0.5, times 2^n.
binom_pmf(i, n) == Binomial(n, i)
binom_cdf(x, n) == BinomialSum(n, 0, x)
binom_sf(x, n) == BinomialSum(n, x + 1, n)

\* The mutated n: the ties are counted whether or not they are excluded.
binomial_n_counts_ties(a, b, t, exclude) == a + b + t

\* n of binomial_test.
binomial_n(a, b, t, exclude) == IF exclude THEN a + b ELSE a + b + t

\* k of binomial_test, doubled: wins_a, or wins_a + ties / 2.
binomial_k2(a, b, t, exclude) == IF exclude THEN 2 * a ELSE 2 * a + t

\* stats.binom_test(k, n, p=0.5, alternative='two-sided') as scipy computes
\* it: x = int(k) (astype(np.int_) truncates), d = pmf(x), and the far tail
\* is made of the y values whose pmf is at most d.  (scipy compares against
\* d * (1 + 1e-7); between integers below 10^7 that is "at most d".)
binom_test(k2, n) ==
    LET x == k2 \div 2
        d == binom_pmf(x, n)
        pval ==
            IF 2 * x = n THEN Pow2(n)
            ELSE IF 2 * x < n
                THEN LET y == Cardinality({ i \in ((n + 1) \div 2)..n :
                                                binom_pmf(i, n) <= d })
                     IN  binom_cdf(x, n) + binom_sf(n - y, n)
                ELSE LET y == Cardinality({ i \in 0..(n \div 2) :
                                                binom_pmf(i, n) <= d })
                     IN  binom_cdf(y - 1, n) + binom_sf(x - 1, n)
    IN  Rat(IF pval > Pow2(n) THEN Pow2(n) ELSE pval, Pow2(n))

\* The mutated default: a win rate of 0 for an empty sample.
binomial_default_zero_rate ==
    [p_value |-> Rat(1, 1), win_rate_a |-> Rat(0, 1),
     ci_lower |-> Rat(0, 1), ci_upper |-> Rat(1, 1), significant |-> FALSE]

\* What binomial_test returns when n == 0.
binomial_default ==
    [p_value |-> Rat(1, 1), win_rate_a |-> Rat(1, 2),
     ci_lower |-> Rat(0, 1), ci_upper |-> Rat(1, 1), significant |-> FALSE]

\* p_value < 0.05.
is_significant(p_value) == RatLess(p_value, Rat(5, 100))

\* binomial_test.  "k / n" raises ZeroDivisionError when n is 0; the n == 0
\* return comes first.  ci_lower and ci_upper of the n > 0 return
\* (stats.binom.interval at the observed rate) are functions of n and k
\* alone and are left out of the record.
binomial_test(a, b, t, exclude) ==
    LET n == binomial_n(a, b, t, exclude)
        k2 == binomial_k2(a, b, t, exclude)
    IN  IF n = 0 THEN binomial_default
        ELSE LET p_value == binom_test(k2, n)
             IN  IF n = 0 THEN [raised |-> "ZeroDivisionError"]
                 ELSE [p_value |-> p_value,
                       win_rate_a |-> Rat(k2, 2 * n),
                       significant |-> is_significant(p_value)]

\* A call of binomial_test returns.
binomial_test_returns ==
    /\ binom_pc = "called"
    /\ binom_pc' = "returned"
    /\ binom_out' = binomial_test(wins_a, wins_b, ties, exclude_ties)
    /\ UNCHANGED <<store_vars, analyzer_vars, wins_a, wins_b, ties, exclude_ties,
                   call_vars, reliability, np_random, report_vars>>

\* The caller reads the result and calls again with other counts.
binomial_test_called(a, b, t, exclude) ==
    /\ binom_pc = "returned"
    /\ binom_pc' = "called"
    /\ wins_a' = a /\ wins_b' = b /\ ties' = t /\ exclude_ties' = exclude
    /\ binom_out' = NoValue
    /\ UNCHANGED <<store_vars, analyzer_vars, call_vars, reliability, np_random, report_vars>>

(***************************************************************************)
(* The specification of binomial_test: every call with counts within the   *)
(* bounds.                                                                 *)
(***************************************************************************)
BinomInit ==
    /\ comparisons = <<>>
    /\ database = <<>>
    /\ results = <<>>
    /\ analyzer_pc = "none"
    /\ analyzer_comparisons = <<>>
    /\ analyzer_results = <<>>
    /\ performance = {}
    /\ wins_a \in 0..MaxWins
    /\ wins_b \in 0..MaxWins
    /\ ties \in 0..MaxTies
    /\ exclude_ties \in BOOLEAN
    /\ binom_pc = "called"
    /\ binom_out = NoValue
    /\ call_pc = "none"
    /\ call_args = NoValue
    /\ call_out = NoValue
    /\ reliability = NoValue
    /\ np_random = 0
    /\ quality = NoValue
    /\ report = NoValue
    /\ scenario_performance = {}
    /\ statistics = NoValue

BinomNext ==
    \/ binomial_test_returns
    \/ \E a \in 0..MaxWins, b \in 0..MaxWins, t \in 0..MaxTies, exclude \in BOOLEAN :
           binomial_test_called(a, b, t, exclude)

SpecBinom == BinomInit /\ [][BinomNext]_vars

(***************************************************************************)
(* StatisticalTests.mcnemar_test (eval/analysis/statistical_tests.py).     *)
(***************************************************************************)

\* np.inf.
Inf == [num |-> 1, den |-> 0]

\* stats.chi2.sf(x, df=1) for x >= 0: 1.0 at 0 and strictly decreasing, held
\* as the fraction it is taken at.
chi2_sf(x) == IF x.num = 0 THEN Rat(1, 1) ELSE [chi2_sf_of |-> x]

\* p_value < 0.05 for either kind of p-value.  chi2.sf(x, 1) < 0.05 exactly
\* when x > 3.8414588...; no (|b - c| - 1)**2 / (b + c) within the bounds
\* lies between that and 3.8415.
p_below_alpha(p_value) ==
    IF "chi2_sf_of" \in DOMAIN p_value
        THEN 10000 * p_value.chi2_sf_of.num > 38415 * p_value.chi2_sf_of.den
        ELSE is_significant(p_value)

\* The 2x2 tables [[a, b], [c, d]] and one table of another shape.
ContingencyTables ==
    { <<<<a, b>>, <<c, d>>>> : a \in 0..1, b \in 0..MaxDiscordant,
                               c \in 0..MaxDiscordant, d \in 0..1 }
        \cup { <<<<0, 1, 2>>>> }

shape(table) == <<Len(table), Len(table[1])>>

abs(x) == IF x < 0 THEN -x ELSE x

\* mcnemar_test past the shape check.
mcnemar_test(contingency_table) ==
    LET b == contingency_table[1][2]
        c == contingency_table[2][1]
    IN  IF b + c = 0
            THEN [statistic |-> Rat(0, 1), p_value |-> Rat(1, 1), significant |-> FALSE]
        ELSE LET exact == b + c < 25
                 p_value == IF exact THEN binom_test(2 * b, b + c)
                            ELSE chi2_sf(Rat((abs(b - c) - 1) * (abs(b - c) - 1), b + c))
                 statistic == IF exact THEN Rat((b - c) * (b - c), b + c)
                              ELSE Rat((abs(b - c) - 1) * (abs(b - c) - 1), b + c)
             IN  [statistic |-> statistic,
                  p_value |-> p_value,
                  significant |-> p_below_alpha(p_value),
                  odds_ratio |-> IF c > 0 THEN Rat(b, c) ELSE Inf]

\* A call of mcnemar_test returns, or raises ValueError on the shape.
mcnemar_test_returns ==
    /\ call_pc = "called"
    /\ IF shape(call_args.contingency_table) # <<2, 2>>
           THEN call_pc' = "raised" /\ call_out' = "ValueError"
           ELSE call_pc' = "returned"
                    /\ call_out' = mcnemar_test(call_args.contingency_table)
    /\ UNCHANGED <<store_vars, analyzer_vars, binom_vars, call_args, reliability, np_random, report_vars>>

\* The caller calls again with another table.
mcnemar_test_called(contingency_table) ==
    /\ call_pc \in {"returned", "raised"}
    /\ call_pc' = "called"
    /\ call_args' = [contingency_table |-> contingency_table]
    /\ call_out' = NoValue
    /\ UNCHANGED <<store_vars, analyzer_vars, binom_vars, reliability, np_random, report_vars>>

\* The state every specification of one method starts from, but for the
\* call itself.
NothingElse ==
    /\ comparisons = <<>>
    /\ database = <<>>
    /\ results = <<>>
    /\ analyzer_pc = "none"
    /\ analyzer_comparisons = <<>>
    /\ analyzer_results = <<>>
    /\ performance = {}
    /\ wins_a = 0 /\ wins_b = 0 /\ ties = 0 /\ exclude_ties = TRUE
    /\ binom_pc = "called"
    /\ binom_out = NoValue

McNemarInit ==
    /\ NothingElse
    /\ reliability = NoValue
    /\ np_random = 0
    /\ quality = NoValue
    /\ report = NoValue
    /\ scenario_performance = {}
    /\ statistics = NoValue
    /\ call_pc = "called"
    /\ call_args \in [contingency_table : ContingencyTables]
    /\ call_out = NoValue

McNemarNext ==
    \/ mcnemar_test_returns
    \/ \E contingency_table \in ContingencyTables : mcnemar_test_called(contingency_table)

SpecMcNemar == McNemarInit /\ [][McNemarNext]_vars

(***************************************************************************)
(* StatisticalTests.bootstrap_confidence_interval.  The method takes no    *)
(* seed and no generator: np.random.choice draws from numpy's global       *)
(* generator, the one np.random.random() of eval/evaluation/ab_testing.py  *)
(* draws from.  The generator is modelled as a deterministic state machine *)
(* of GeneratorPeriod states.  Scores are held doubled, and the mean       *)
(* differences of one call in units of 1 / (2 * n_a * n_b).                *)
(***************************************************************************)
GeneratorPeriod == 16

\* The generator after one draw, and the index in 0..n-1 a draw yields.
next_state(g) == (5 * g + 3) % GeneratorPeriod
drawn_index(g, n) == (g \div 2) % n

RECURSIVE advance(_, _)
advance(g, k) == IF k = 0 THEN g ELSE advance(next_state(g), k - 1)

\* A signed fraction n/d in lowest terms, d > 0.
SRat(n, d) == LET g == GCD(abs(n), d) IN [num |-> n \div g, den |-> d \div g]

\* The sum of np.random.choice(scores, size=k, replace=True) drawn from
\* state g on.
RECURSIVE choice_sum(_, _, _)
choice_sum(scores, k, g) ==
    IF k = 0 THEN 0
    ELSE scores[drawn_index(g, Len(scores)) + 1] + choice_sum(scores, k - 1, next_state(g))

\* bootstrap_diffs after iterations i..n_bootstrap, the generator at g.
RECURSIVE bootstrap_diffs(_, _, _, _, _)
bootstrap_diffs(scores_a, scores_b, n_bootstrap, i, g) ==
    IF i > n_bootstrap THEN <<>>
    ELSE LET n_a == Len(scores_a)
             n_b == Len(scores_b)
             sample_a == choice_sum(scores_a, n_a, g)
             sample_b == choice_sum(scores_b, n_b, advance(g, n_a))
         IN  <<sample_a * n_b - sample_b * n_a>>
                 \o bootstrap_diffs(scores_a, scores_b, n_bootstrap, i + 1,
                                    advance(g, n_a + n_b))

\* s with x inserted before the first larger element (s sorted).
RECURSIVE insert_sorted(_, _)
insert_sorted(s, x) ==
    IF s = <<>> THEN <<x>>
    ELSE IF x <= Head(s) THEN <<x>> \o s
    ELSE <<Head(s)>> \o insert_sorted(Tail(s), x)

RECURSIVE sorted(_)
sorted(s) == IF s = <<>> THEN <<>> ELSE insert_sorted(sorted(Tail(s)), Head(s))

\* np.percentile(a, q) with q = q40 * 2.5 (linear interpolation), times 40:
\* the position is q / 100 * (N - 1) = q40 * (N - 1) / 40.
percentile40(a, q40) ==
    LET v == sorted(a)
        pos == q40 * (Len(a) - 1)
        lo == pos \div 40
        r == pos % 40
    IN  IF r = 0 THEN 40 * v[lo + 1]
        ELSE 40 * v[lo + 1] + r * (v[lo + 2] - v[lo + 1])

\* len(diffs) * np.mean(diffs <= 0) and len(diffs) * np.mean(diffs >= 0).
count_nonpositive(s) == Cardinality({ i \in DOMAIN s : s[i] <= 0 })
count_nonnegative(s) == Cardinality({ i \in DOMAIN s : s[i] >= 0 })

\* bootstrap_confidence_interval at confidence_level 0.95, the global
\* generator at g when it is called.
bootstrap_confidence_interval(scores_a, scores_b, n_bootstrap, g) ==
    LET n_a == Len(scores_a)
        n_b == Len(scores_b)
        unit == 2 * n_a * n_b
        original_diff == SumSeq(scores_a) * n_b - SumSeq(scores_b) * n_a
        diffs == bootstrap_diffs(scores_a, scores_b, n_bootstrap, 1, g)
        ci_lower == percentile40(diffs, 1)
        ci_upper == percentile40(diffs, 39)
        opposite == IF original_diff > 0
                        THEN count_nonpositive(diffs)
                        ELSE count_nonnegative(diffs)
    IN  [mean_diff |-> SRat(original_diff, unit),
         ci_lower |-> SRat(ci_lower, 40 * unit),
         ci_upper |-> SRat(ci_upper, 40 * unit),
         p_value |-> IF 2 * opposite > n_bootstrap THEN Rat(1, 1)
                     ELSE Rat(2 * opposite, n_bootstrap),
         significant |-> (0 < ci_lower \/ ci_upper < 0)]

\* A call of bootstrap_confidence_interval returns: the result, and the
\* global generator n_bootstrap * (n_a + n_b) draws further on.
bootstrap_confidence_interval_returns ==
    /\ call_pc = "called"
    /\ call_pc' = "returned"
    /\ call_out' = bootstrap_confidence_interval(
                       call_args.scores_a, call_args.scores_b,
                       call_args.n_bootstrap, np_random)
    /\ np_random' = advance(np_random,
                            call_args.n_bootstrap
                                * (Len(call_args.scores_a) + Len(call_args.scores_b)))
    /\ UNCHANGED <<store_vars, analyzer_vars, binom_vars, call_args, reliability, report_vars>>

bootstrap_confidence_interval_called(scores_a, scores_b, n_bootstrap) ==
    /\ call_pc = "returned"
    /\ call_pc' = "called"
    /\ call_args' = [scores_a |-> scores_a, scores_b |-> scores_b,
                     n_bootstrap |-> n_bootstrap]
    /\ call_out' = NoValue
    /\ UNCHANGED <<store_vars, analyzer_vars, binom_vars, reliability, np_random, report_vars>>

\* Other code draws from the global generator between two calls
\* (np.random.random() in create_comparison of eval/evaluation/ab_testing.py).
np_random_random ==
    /\ call_pc = "returned"
    /\ np_random' = next_state(np_random)
    /\ UNCHANGED <<store_vars, analyzer_vars, binom_vars, call_vars, reliability, report_vars>>

\* Non-empty lists of scores.
ScoreLists == UNION { [1..n -> {0, 1, 2}] : n \in 1..MaxScores }

BootstrapInit ==
    /\ NothingElse
    /\ reliability = NoValue
    /\ np_random = 0
    /\ quality = NoValue
    /\ report = NoValue
    /\ scenario_performance = {}
    /\ statistics = NoValue
    /\ call_pc = "called"
    /\ call_args \in [scores_a : ScoreLists, scores_b : ScoreLists,
                       n_bootstrap : 1..MaxBootstrap]
    /\ call_out = NoValue

BootstrapNext ==
    \/ bootstrap_confidence_interval_returns
    \/ \E scores_a \in ScoreLists, scores_b \in ScoreLists, n_bootstrap \in 1..MaxBootstrap :
           bootstrap_confidence_interval_called(scores_a, scores_b, n_bootstrap)
    \/ np_random_random

SpecBootstrap == BootstrapInit /\ [][BootstrapNext]_vars

(***************************************************************************)
(* StatisticalTests.bradley_terry_model.  The fit of statsmodels' GLM is   *)
(* an iteration over reals; it is modelled by its outcome, a choice among  *)
(* the outcomes it can have for the design it is given (glm_fit_outcomes). *)
(***************************************************************************)
BTModels == {"m1", "m2", "m3"}

\* The rank of a name under Python's sorted().
ModelRank == [m1 |-> 0, m2 |-> 1, m3 |-> 2]

\* The rows of comparison_results (no weight column: row.get gives 1.0).
BTRows ==
    { r \in [model_a : BTModels, model_b : BTModels, winner : {"a", "b", "tie"}] :
          r.model_a # r.model_b }

BTInputs == UNION { [1..n -> BTRows] : n \in 1..MaxRecords }

\* The values a fitted coefficient is drawn from.
CoefficientValues == {-1, 0, 2}

\* models: the names of both columns; model_to_idx: the position of a name
\* in sorted(models).
bt_models(comparison_results) ==
    { comparison_results[i].model_a : i \in DOMAIN comparison_results }
        \cup { comparison_results[i].model_b : i \in DOMAIN comparison_results }

model_to_idx(models, model) ==
    Cardinality({ m \in models : ModelRank[m] < ModelRank[model] })

non_tie_rows(comparison_results) ==
    SelectSeq(comparison_results, LAMBDA row : row.winner # "tie")

\* The contrast vector of one row: zeros(n_models - 1), then 1 at
\* idx_a - 1 if idx_a > 0, then -1 at idx_b - 1 if idx_b > 0.
contrast(models, row) ==
    LET idx_a == model_to_idx(models, row.model_a)
        idx_b == model_to_idx(models, row.model_b)
    IN  [j \in 1..(Cardinality(models) - 1) |->
            IF idx_b = j THEN -1 ELSE IF idx_a = j THEN 1 ELSE 0]

\* X and y: one contrast and one outcome per row that is not a tie.
design_X(comparison_results) ==
    LET rows == non_tie_rows(comparison_results)
    IN  [i \in DOMAIN rows |-> contrast(bt_models(comparison_results), rows[i])]

design_y(comparison_results) ==
    LET rows == non_tie_rows(comparison_results)
    IN  [i \in DOMAIN rows |-> IF rows[i].winner = "a" THEN 1 ELSE 0]

\* sm.add_constant(X) (prepend=True, has_constant='skip'): X itself when
\* some column of X is constant and non-zero, else a column of ones before X.
has_nonzero_const(X) ==
    \E j \in DOMAIN X[1] :
        /\ X[1][j] # 0
        /\ \A i \in DOMAIN X : X[i][j] = X[1][j]

add_constant(X) ==
    IF has_nonzero_const(X) THEN X
    ELSE [i \in DOMAIN X |-> <<1>> \o X[i]]

\* x . beta.
RECURSIVE dot(_, _)
dot(x, beta) ==
    IF x = <<>> THEN 0 ELSE Head(x) * Head(beta) + dot(Tail(x), Tail(beta))

\* Complete separation: some coefficients put every row with y = 1 on the
\* positive side and every row with y = 0 on the negative side.  For the
\* designs within the bounds, coefficients in -SeparationRange..SeparationRange
\* decide it.
SeparationRange == 4

completely_separated(exog, endog) ==
    \E beta \in [DOMAIN exog[1] -> (-SeparationRange)..SeparationRange] :
        \A i \in DOMAIN exog :
            IF endog[i] = 1 THEN dot(exog[i], beta) > 0 ELSE dot(exog[i], beta) < 0

\* What sm.GLM(y, exog, family=Binomial(), freq_weights=w).fit() can do.
\* On completely separated data the iteration drives the fitted values to
\* y: statsmodels before 0.14 raises PerfectSeparationError there, later
\* versions warn and return the coefficients reached.  Otherwise it
\* returns the estimate, one coefficient per column of exog.
glm_fit_outcomes(exog, endog) ==
    LET fitted == { [raised |-> FALSE, params |-> params] :
                        params \in [DOMAIN exog[1] -> CoefficientValues] }
    IN  IF completely_separated(exog, endog)
            THEN fitted \cup { [raised |-> TRUE, params |-> <<>>] }
            ELSE fitted

\* strengths = np.zeros(n_models); strengths[1:] = result.params[1:].
\* The right side has one entry per column of exog but the first.  numpy
\* assigns it entry by entry when the lengths agree, repeats a single entry
\* over the whole slice, and raises ValueError otherwise.
slice_assign_raises(n_models, params) ==
    Len(params) - 1 # n_models - 1 /\ Len(params) - 1 # 1

slice_assigned(n_models, params) ==
    [i \in 0..(n_models - 1) |->
        IF i = 0 THEN 0
        ELSE IF Len(params) - 1 = n_models - 1 THEN params[i + 1]
        ELSE params[2]]

RECURSIVE SumOver(_, _)
SumOver(f, S) ==
    IF S = {} THEN 0
    ELSE LET x == CHOOSE x \in S : TRUE IN f[x] + SumOver(f, S \ {x})

\* The results of the try block once the fit has returned.  se is held as
\* the column of exog whose standard error it is, 0 for the literal 0.0.
fitted_results(models, params) ==
    LET n_models == Cardinality(models)
        strengths == slice_assigned(n_models, params)
        total == SumOver(strengths, 0..(n_models - 1))
    IN  [model_name \in models |->
            LET i == model_to_idx(models, model_name)
                normalized == SRat(n_models * strengths[i] - total, n_models)
            IN  [strength |-> normalized,
                 se |-> IF i = 0 THEN [bse_of |-> 0]
                        ELSE IF Len(params) - 1 = n_models - 1 THEN [bse_of |-> i + 1]
                        ELSE [bse_of |-> 2],
                 win_probability |-> [sigmoid_of |-> normalized]]]

\* wins and total of the fallback, over all rows (ties count in total).
bt_wins(comparison_results, model) ==
    Cardinality({ i \in DOMAIN comparison_results :
        \/ comparison_results[i].model_a = model /\ comparison_results[i].winner = "a"
        \/ comparison_results[i].model_b = model /\ comparison_results[i].winner = "b" })

bt_total(comparison_results, model) ==
    Cardinality({ i \in DOMAIN comparison_results :
        \/ comparison_results[i].model_a = model
        \/ comparison_results[i].model_b = model })

\* wins / max(total, 1).
win_rate_of(comparison_results, model) ==
    LET total == bt_total(comparison_results, model)
    IN  Rat(bt_wins(comparison_results, model), IF total > 1 THEN total ELSE 1)

RatAdd(p, q) == Rat(p.num * q.den + q.num * p.den, p.den * q.den)

RECURSIVE RatSumOver(_, _)
RatSumOver(f, S) ==
    IF S = {} THEN Rat(0, 1)
    ELSE LET x == CHOOSE x \in S : TRUE IN RatAdd(f[x], RatSumOver(f, S \ {x}))

\* The except block.  rate is a Python float: rate / (1 - rate) raises
\* ZeroDivisionError at rate == 1.0, inside the handler.  avg_rate is a
\* numpy float, and np.log(0.0) is -inf: neither raises.  A strength is
\* held as the two rates whose log-odds it is the difference of.
fallback(comparison_results, models) ==
    LET win_rates == [model \in models |-> win_rate_of(comparison_results, model)]
        rate_sum == RatSumOver(win_rates, models)
        avg_rate == Rat(rate_sum.num, rate_sum.den * Cardinality(models))
    IN  IF \E model \in models : win_rates[model] = Rat(1, 1)
            THEN [raised |-> "ZeroDivisionError"]
            ELSE [raised |-> NoValue,
                  value |-> [model \in models |->
                      [strength |-> [log_odds_of |-> win_rates[model],
                                     minus_log_odds_of |-> avg_rate],
                       se |-> Inf,
                       win_probability |-> win_rates[model]]]]

\* The fit bradley_terry_model asks for, when it asks for one.
bt_fit_outcomes(comparison_results) ==
    IF non_tie_rows(comparison_results) = <<>>
        THEN { [raised |-> FALSE, params |-> <<>>] }
        ELSE glm_fit_outcomes(add_constant(design_X(comparison_results)),
                              design_y(comparison_results))

\* bradley_terry_model, the fit having the outcome fit.
bradley_terry_model(comparison_results, fit) ==
    LET models == bt_models(comparison_results)
        n_models == Cardinality(models)
    IN  IF non_tie_rows(comparison_results) = <<>>
            THEN [raised |-> NoValue,
                  value |-> [model \in models |-> [strength |-> SRat(0, 1), se |-> Inf]]]
        ELSE IF fit.raised \/ slice_assign_raises(n_models, fit.params)
            THEN fallback(comparison_results, models)
        ELSE [raised |-> NoValue, value |-> fitted_results(models, fit.params)]

\* A call of bradley_terry_model returns, or raises what the except block
\* raised.  call_out keeps, beside the returned value, the local variable
\* result (what the fit gave).
bradley_terry_model_returns ==
    /\ call_pc = "called"
    /\ \E fit \in bt_fit_outcomes(call_args.comparison_results) :
           LET out == bradley_terry_model(call_args.comparison_results, fit)
           IN  /\ call_pc' = IF out.raised = NoValue THEN "returned" ELSE "raised"
               /\ call_out' = out @@ [result |-> fit]
    /\ UNCHANGED <<store_vars, analyzer_vars, binom_vars, call_args, reliability,
                   np_random, report_vars>>

\* run_statistical_tests calls bradley_terry_model on the rows of one
\* dimension.
bradley_terry_model_called(comparison_results) ==
    /\ call_pc = "none"
    /\ call_pc' = "called"
    /\ call_args' = [comparison_results |-> comparison_results]
    /\ call_out' = NoValue
    /\ UNCHANGED <<store_vars, analyzer_vars, binom_vars, reliability, np_random, report_vars>>

\* The caller is done with the result and goes on to the next dimension.
bradley_terry_model_done ==
    /\ call_pc \in {"returned", "raised"}
    /\ call_pc' = "none"
    /\ call_args' = NoValue
    /\ call_out' = NoValue
    /\ UNCHANGED <<store_vars, analyzer_vars, binom_vars, reliability, np_random, report_vars>>

BTInit ==
    /\ NothingElse
    /\ reliability = NoValue
    /\ np_random = 0
    /\ quality = NoValue
    /\ report = NoValue
    /\ scenario_performance = {}
    /\ statistics = NoValue
    /\ call_pc = "none"
    /\ call_args = NoValue
    /\ call_out = NoValue

BTNext ==
    \/ \E comparison_results \in BTInputs : bradley_terry_model_called(comparison_results)
    \/ bradley_terry_model_returns
    \/ bradley_terry_model_done

SpecBT == BTInit /\ [][BTNext]_vars

(***************************************************************************)
(* StatisticalTests.multiple_comparison_correction, with multipletests of  *)
(* statsmodels (alpha = 0.05) as it computes bonferroni, holm and fdr_bh.  *)
(* p_values, a dict, is held as the sequence of its items in insertion     *)
(* order.                                                                  *)
(***************************************************************************)
TestNames == <<"t1", "t2", "t3", "t4", "t5">>

PValueGrid == {Rat(0, 1), Rat(1, 100), Rat(1, 40), Rat(1, 20), Rat(1, 2), Rat(1, 1)}

\* The three methods the docstring names, and one multipletests does not know.
Methods == {"bonferroni", "holm", "fdr_bh", "tukey"}

PValueInputs ==
    UNION { { [i \in 1..n |-> [name |-> TestNames[i], p |-> p_vals[i]]] :
                  p_vals \in [1..n -> PValueGrid] } : n \in 1..MaxTests }

RatLeq(p, q) == ~RatLess(q, p)
RatTimes(p, k) == Rat(p.num * k, p.den)
RatOver(p, k) == Rat(p.num, p.den * k)
RatMax(p, q) == IF RatLess(p, q) THEN q ELSE p
RatMin(p, q) == IF RatLess(p, q) THEN p ELSE q

\* The index arrays np.argsort(pvals) may return: equal p-values may come
\* in either order (the default sort is not stable).
ArgSorts(p_vals) ==
    { sortind \in Permutations(DOMAIN p_vals) :
          \A i \in DOMAIN p_vals, j \in DOMAIN p_vals :
              i < j => RatLeq(p_vals[sortind[i]], p_vals[sortind[j]]) }

\* The mutated accumulation: none.
no_accumulate(a) == a

\* np.maximum.accumulate(a).
RECURSIVE maximum_accumulate(_)
maximum_accumulate(a) ==
    IF Len(a) <= 1 THEN a
    ELSE LET front == maximum_accumulate(SubSeq(a, 1, Len(a) - 1))
         IN  Append(front, RatMax(front[Len(front)], a[Len(a)]))

\* np.minimum.accumulate(a[::-1])[::-1].
RECURSIVE minimum_accumulate_reversed(_)
minimum_accumulate_reversed(a) ==
    IF Len(a) <= 1 THEN a
    ELSE LET back == minimum_accumulate_reversed(Tail(a))
         IN  <<RatMin(Head(a), back[1])>> \o back

\* pvals_corrected[pvals_corrected > 1] = 1.
clip_at_one(a) == [i \in DOMAIN a |-> RatMin(a[i], Rat(1, 1))]

\* multipletests on the sorted p-values: (reject, pvals_corrected).
multipletests_sorted(pvals, method) ==
    LET ntests == Len(pvals)
    IN  IF method = "bonferroni" THEN
            [reject |-> [i \in DOMAIN pvals |-> RatLeq(pvals[i], Rat(1, 20 * ntests))],
             pvals_corrected |->
                 clip_at_one([i \in DOMAIN pvals |-> RatTimes(pvals[i], ntests)])]
        ELSE IF method = "holm" THEN
            [reject |-> [i \in DOMAIN pvals |->
                            \A k \in 1..i :
                                RatLeq(pvals[k], Rat(1, 20 * (ntests - k + 1)))],
             pvals_corrected |->
                 clip_at_one(maximum_accumulate(
                     [i \in DOMAIN pvals |-> RatTimes(pvals[i], ntests - i + 1)]))]
        ELSE \* fdr_bh: fdrcorrection(pvals, method='indep')
            [reject |-> [i \in DOMAIN pvals |->
                            \E k \in i..ntests :
                                RatLeq(pvals[k], Rat(k, 20 * ntests))],
             pvals_corrected |->
                 clip_at_one(minimum_accumulate_reversed(
                     [i \in DOMAIN pvals |-> RatOver(RatTimes(pvals[i], ntests), i)]))]

\* multipletests(p_vals, method=method): sort, correct, and put the results
\* back in the order of p_vals.
multipletests(p_vals, method, sortind) ==
    LET pvals == [i \in DOMAIN p_vals |-> p_vals[sortind[i]]]
        done == multipletests_sorted(pvals, method)
        back == [i \in DOMAIN p_vals |-> CHOOSE k \in DOMAIN p_vals : sortind[k] = i]
    IN  [reject |-> [i \in DOMAIN p_vals |-> done.reject[back[i]]],
         pvals_corrected |-> [i \in DOMAIN p_vals |-> done.pvals_corrected[back[i]]]]

\* multiple_comparison_correction for a recognised method: the dict it
\* returns, keyed by test name.
multiple_comparison_correction(p_values, method, sortind) ==
    LET p_vals == [i \in DOMAIN p_values |-> p_values[i].p]
        corrected == multipletests(p_vals, method, sortind)
    IN  [name \in { p_values[i].name : i \in DOMAIN p_values } |->
            LET i == CHOOSE i \in DOMAIN p_values : p_values[i].name = name
            IN  [original_p |-> p_vals[i],
                 corrected_p |-> corrected.pvals_corrected[i],
                 significant |-> corrected.reject[i],
                 method |-> method]]

\* A call of multiple_comparison_correction returns, or raises the
\* ValueError of multipletests ('method not recognized').
multiple_comparison_correction_returns ==
    /\ call_pc = "called"
    /\ IF call_args.method \notin {"bonferroni", "holm", "fdr_bh"}
           THEN call_pc' = "raised" /\ call_out' = [raised |-> "ValueError"]
           ELSE /\ call_pc' = "returned"
                /\ \E sortind \in ArgSorts([i \in DOMAIN call_args.p_values |->
                                                call_args.p_values[i].p]) :
                       call_out' = multiple_comparison_correction(
                                       call_args.p_values, call_args.method, sortind)
    /\ UNCHANGED <<store_vars, analyzer_vars, binom_vars, call_args, reliability,
                   np_random, report_vars>>

\* run_statistical_tests calls it on the p-values of the binomial tests.
multiple_comparison_correction_called(p_values, method) ==
    /\ call_pc = "none"
    /\ call_pc' = "called"
    /\ call_args' = [p_values |-> p_values, method |-> method]
    /\ call_out' = NoValue
    /\ UNCHANGED <<store_vars, analyzer_vars, binom_vars, reliability, np_random, report_vars>>

\* The caller is done with the result.
multiple_comparison_correction_done ==
    /\ call_pc \in {"returned", "raised"}
    /\ call_pc' = "none"
    /\ call_args' = NoValue
    /\ call_out' = NoValue
    /\ UNCHANGED <<store_vars, analyzer_vars, binom_vars, reliability, np_random, report_vars>>

CorrectionInit ==
    /\ NothingElse
    /\ reliability = NoValue
    /\ np_random = 0
    /\ quality = NoValue
    /\ report = NoValue
    /\ scenario_performance = {}
    /\ statistics = NoValue
    /\ call_pc = "none"
    /\ call_args = NoValue
    /\ call_out = NoValue

CorrectionNext ==
    \/ \E p_values \in PValueInputs, method \in Methods :
           multiple_comparison_correction_called(p_values, method)
    \/ multiple_comparison_correction_returns
    \/ multiple_comparison_correction_done

SpecCorrection == CorrectionInit /\ [][CorrectionNext]_vars

(***************************************************************************)
(* EvaluationAnalyzer.calculate_inter_rater_reliability                    *)
(* (matrix-game-eval/analysis/analyzer.py:106).  It reads self.results     *)
(* only.                                                                   *)
(***************************************************************************)

\* The dimensions in the order the method goes through them (line 121).
DimensionOrder ==
    <<"overall_quality", "controllability", "visual_quality", "temporal_consistency">>

\* The order of the columns of the rating matrix (line 135).
VoteOrder == <<"A", "B", "Equal">>

\* The results an analyzer may have loaded: up to MaxRatings results on two
\* comparisons, each with a choice for overall_quality or without one.
RatingInputs ==
    [comparison_id : 1..2,
     evaluator_id : {"e1"},
     dimension_scores : [{"overall_quality"} -> Choices]
                            \cup [{"controllability"} -> {"A"}]]

ResultLists == UNION { [1..n -> RatingInputs] : n \in 0..MaxRatings }

\* The keys of comparison_results, a dict: in the order of first insertion
\* (lines 114-116).
RECURSIVE comparison_keys(_)
comparison_keys(res) ==
    IF res = <<>> THEN <<>>
    ELSE LET front == comparison_keys(SubSeq(res, 1, Len(res) - 1))
             last == res[Len(res)].comparison_id
         IN  IF \E i \in DOMAIN front : front[i] = last
                 THEN front ELSE Append(front, last)

\* comparison_results[comp_id].
results_of(res, comp_id) ==
    LET of_comparison(result) == result.comparison_id = comp_id
    IN  SelectSeq(res, of_comparison)

\* result.dimension_scores.get(dimension, 'Equal') (line 132).
choice_of(result, dimension) ==
    IF dimension \in DOMAIN result.dimension_scores
        THEN result.dimension_scores[dimension] ELSE "Equal"

\* The mutated count: a result without the dimension casts no vote.
votes_row_present_only(rs, dimension) ==
    [j \in DOMAIN VoteOrder |->
        Cardinality({ i \in DOMAIN rs :
                          /\ dimension \in DOMAIN rs[i].dimension_scores
                          /\ rs[i].dimension_scores[dimension] = VoteOrder[j] })]

\* [votes['A'], votes['B'], votes['Equal']] of one comparison (lines 130-135).
votes_row(rs, dimension) ==
    [j \in DOMAIN VoteOrder |->
        Cardinality({ i \in DOMAIN rs : choice_of(rs[i], dimension) = VoteOrder[j] })]

\* Lines 126-127: 'if len(results) < 2: continue'.
enough_raters(rs) == Len(rs) >= 2

\* rating_matrix of a dimension (lines 123-135).
rating_matrix(res, dimension) ==
    LET eligible(comp_id) == enough_raters(results_of(res, comp_id))
        kept == SelectSeq(comparison_keys(res), eligible)
    IN  [i \in DOMAIN kept |-> votes_row(results_of(res, kept[i]), dimension)]

\* 'votes[choice] += 1' (line 133) on a choice that is no key of votes
\* raises KeyError while the matrix of the dimension is built.
unknown_vote(res, dimension) ==
    \E i \in DOMAIN res :
        /\ enough_raters(results_of(res, res[i].comparison_id))
        /\ \A j \in DOMAIN VoteOrder : choice_of(res[i], dimension) # VoteOrder[j]

\* rating_array.sum(axis=0)[j].
column_sum(rating_array, j) == SumOver([i \in DOMAIN rating_array |-> rating_array[i][j]],
                                       DOMAIN rating_array)

\* Lines 139-147, the locals when line 152 is reached: n_raters is the sum
\* of the first row, p_j divides the column sums by n_raters * n_subjects.
kappa_locals(rating_array, dimension) ==
    LET n_raters == SumSeq(rating_array[1])
        n_subjects == Len(rating_array)
        totals == [j \in DOMAIN VoteOrder |-> column_sum(rating_array, j)]
    IN  [dimension |-> dimension,
         rating_array |-> rating_array,
         n_raters |-> n_raters,
         n_subjects |-> n_subjects,
         p_j |-> [j \in DOMAIN VoteOrder |-> Rat(totals[j], n_raters * n_subjects)],
         P_e_bar |-> Rat(SumOver([j \in DOMAIN VoteOrder |-> totals[j] * totals[j]],
                                 DOMAIN VoteOrder),
                         (n_raters * n_subjects) * (n_raters * n_subjects))]

\* The loop over the dimensions (lines 121-162).  With a rating matrix the
\* first pass of the loop of lines 150-154 evaluates
\*     P_i.append(...) / (n_raters * (n_raters - 1))
\* where the closing parenthesis of append comes before the division:
\* append returns None and None / int raises TypeError.  Lines 155-162 are
\* never reached.  Without a rating matrix the dimension gets no entry.
RECURSIVE kappa_loop(_, _, _)
kappa_loop(res, d, kappa_scores) ==
    IF d > Len(DimensionOrder)
        THEN [raised |-> NoValue, kappa_scores |-> kappa_scores, locals |-> NoValue]
    ELSE LET rating_array == rating_matrix(res, DimensionOrder[d])
         IN  IF unknown_vote(res, DimensionOrder[d])
                 THEN [raised |-> "KeyError", kappa_scores |-> kappa_scores,
                       locals |-> NoValue]
             ELSE IF rating_array # <<>>
                 THEN [raised |-> "TypeError", kappa_scores |-> kappa_scores,
                       locals |-> kappa_locals(rating_array, DimensionOrder[d])]
                 ELSE kappa_loop(res, d + 1, kappa_scores)

\* A call of calculate_inter_rater_reliability on the analyzer.
calculate_inter_rater_reliability ==
    /\ analyzer_pc = "loaded"
    /\ analyzer_pc' = "rated"
    /\ reliability' = kappa_loop(analyzer_results, 1, <<>>)
    /\ UNCHANGED <<store_vars, analyzer_comparisons, analyzer_results, performance,
                   binom_vars, call_vars, np_random, report_vars>>

\* An analyzer constructed on some results.
KappaInit ==
    /\ comparisons = <<>>
    /\ database = <<>>
    /\ results = <<>>
    /\ analyzer_pc = "loaded"
    /\ analyzer_comparisons = <<>>
    /\ analyzer_results \in ResultLists
    /\ performance = {}
    /\ wins_a = 0 /\ wins_b = 0 /\ ties = 0 /\ exclude_ties = TRUE
    /\ binom_pc = "called"
    /\ binom_out = NoValue
    /\ call_pc = "none"
    /\ call_args = NoValue
    /\ call_out = NoValue
    /\ reliability = NoValue
    /\ np_random = 0
    /\ quality = NoValue
    /\ report = NoValue
    /\ scenario_performance = {}
    /\ statistics = NoValue

KappaNext == calculate_inter_rater_reliability

SpecKappa == KappaInit /\ [][KappaNext]_vars

(***************************************************************************)
(* EvaluationAnalyzer._interpret_kappa (analyzer.py:442).  kappa is held   *)
(* in hundredths, so the literals 0.20 ... 0.80 are 20 ... 80.             *)
(***************************************************************************)

KappaValues == (0 - MaxKappaHundredths)..MaxKappaHundredths

\* The same chain with <= in place of <: a boundary falls in the lower band.
interpret_kappa_inclusive(kappa) ==
    IF kappa <= 0 THEN "Poor agreement"
    ELSE IF kappa <= 20 THEN "Slight agreement"
    ELSE IF kappa <= 40 THEN "Fair agreement"
    ELSE IF kappa <= 60 THEN "Moderate agreement"
    ELSE IF kappa <= 80 THEN "Substantial agreement"
    ELSE "Almost perfect agreement"

\* Lines 444-455.
interpret_kappa(kappa) ==
    IF kappa < 0 THEN "Poor agreement"
    ELSE IF kappa < 20 THEN "Slight agreement"
    ELSE IF kappa < 40 THEN "Fair agreement"
    ELSE IF kappa < 60 THEN "Moderate agreement"
    ELSE IF kappa < 80 THEN "Substantial agreement"
    ELSE "Almost perfect agreement"

interpret_kappa_returns ==
    /\ call_pc = "called"
    /\ call_pc' = "returned"
    /\ call_out' = interpret_kappa(call_args.kappa)
    /\ UNCHANGED <<store_vars, analyzer_vars, binom_vars, call_args, reliability,
                   np_random, report_vars>>

\* _generate_summary_report calls it on a value of irr (line 412).
interpret_kappa_called(kappa) ==
    /\ call_pc = "none"
    /\ call_pc' = "called"
    /\ call_args' = [kappa |-> kappa]
    /\ call_out' = NoValue
    /\ UNCHANGED <<store_vars, analyzer_vars, binom_vars, reliability, np_random, report_vars>>

\* The interpretation went into the report line (line 413).
interpret_kappa_done ==
    /\ call_pc = "returned"
    /\ call_pc' = "none"
    /\ call_args' = NoValue
    /\ call_out' = NoValue
    /\ UNCHANGED <<store_vars, analyzer_vars, binom_vars, reliability, np_random, report_vars>>

InterpretInit ==
    /\ NothingElse
    /\ reliability = NoValue
    /\ np_random = 0
    /\ quality = NoValue
    /\ report = NoValue
    /\ scenario_performance = {}
    /\ statistics = NoValue
    /\ call_pc = "none"
    /\ call_args = NoValue
    /\ call_out = NoValue

InterpretNext ==
    \/ \E kappa \in KappaValues : interpret_kappa_called(kappa)
    \/ interpret_kappa_returns
    \/ interpret_kappa_done

SpecInterpret == InterpretInit /\ [][InterpretNext]_vars

(***************************************************************************)
(* EvaluationAnalyzer.analyze_by_scenario, analyze_evaluation_quality,     *)
(* generate_report and _generate_summary_report (analyzer.py:166-440).     *)
(***************************************************************************)

\* The results a report is made of: the fields the four analyses read.
\* completion_time_seconds is 10 or 50, on either side of the 30 s of
\* line 424.
ReportResultInputs ==
    [comparison_id : 1..2,
     evaluator_id : EvaluatorIds,
     dimension_scores : [{"overall_quality"} -> {"A", "B"}]
                            \cup [{"controllability"} -> {"Equal"}],
     completion_time_seconds : {10, 50}]

ReportResultLists == UNION { [1..n -> ReportResultInputs] : n \in 0..MaxReportResults }

\* A stored comparison of m1 and m2 as get_comparison loads it, with the
\* scenario_metadata that analyze_by_scenario reads.
report_comparison(comparison_id, swap, scenario) ==
    to_dict(new_comparison(comparison_id, "m1", "m2", swap))
        @@ [scenario_metadata |-> scenario]

\* The comparisons of the analyzer: one with a biome, and possibly a
\* second, swapped, without one.
ReportComparisonInputs ==
    { <<report_comparison(1, FALSE, [biome |-> "desert"])>>,
      <<report_comparison(1, FALSE, [biome |-> "desert"]),
        report_comparison(2, TRUE, [name |-> "s2"])>> }

\* comparison.scenario_metadata.get('biome', 'unknown') (line 180).
biome_of(comparison) ==
    IF "biome" \in DOMAIN comparison.scenario_metadata
        THEN comparison.scenario_metadata.biome ELSE "unknown"

\* analyze_by_scenario: the scoring of calculate_model_performance, kept
\* apart by scenario (lines 175-193), and a row per non-empty list without
\* std_error (lines 197-207).
analyze_by_scenario(comps, res) ==
    LET scenarios == { biome_of(comps[c]) : c \in DOMAIN comps }
        of_scenario(scenario) ==
            { c \in DOMAIN comps : biome_of(comps[c]) = scenario }
        res_of(scenario) ==
            LET in_scenario(result) == result.comparison_id \in of_scenario(scenario)
            IN  SelectSeq(res, in_scenario)
    IN  UNION { { [scenario |-> scenario, model |-> row.model,
                   dimension |-> row.dimension, win_rate |-> row.win_rate,
                   num_evaluations |-> row.num_evaluations] :
                      row \in model_performance(comps, res_of(scenario)) } :
                  scenario \in scenarios }

\* The choices of an evaluator, counted (lines 231-232): the choices that
\* occur, each with its count.
dimension_variance(res, evaluator) ==
    LET picks == { <<i, d>> \in (DOMAIN res) \X (CanonicalDimensions \cup {"pacing"}) :
                       /\ res[i].evaluator_id = evaluator
                       /\ d \in DOMAIN res[i].dimension_scores }
        chosen == { res[p[1]].dimension_scores[p[2]] : p \in picks }
    IN  [choice \in chosen |->
            Cardinality({ p \in picks : res[p[1]].dimension_scores[p[2]] = choice })]

RECURSIVE IntPow(_, _)
IntPow(b, e) == IF e = 0 THEN 1 ELSE b * IntPow(b, e - 1)

RECURSIVE ProductOver(_, _)
ProductOver(f, S) ==
    IF S = {} THEN 1
    ELSE LET x == CHOOSE x \in S : TRUE IN f[x] * ProductOver(f, S \ {x})

\* response_entropy < threshold at the threshold 0.5 of line 428.  The
\* entropy is 0 with at most one choice (line 257); else, with counts c
\* and n = sum c, -sum (c/n) log2 (c/n) < 1/2 exactly when
\* (prod c^c)^2 * 2^n > n^(2n).
entropy_below_half(counts) ==
    LET n == SumOver(counts, DOMAIN counts)
        powers == [c \in DOMAIN counts |-> IntPow(counts[c], counts[c])]
        product == ProductOver(powers, DOMAIN counts)
    IN  IF Cardinality(DOMAIN counts) > 1
            THEN product * product * IntPow(2, n) > IntPow(n, 2 * n)
            ELSE TRUE

\* np.median of a list of numbers, NaN for the empty list.
median_of(times) ==
    LET v == sorted(times)
        n == Len(times)
    IN  IF n = 0 THEN NaN
        ELSE IF n % 2 = 1 THEN Rat(v[(n + 1) \div 2], 1)
        ELSE Rat(v[n \div 2] + v[n \div 2 + 1], 2)

\* analyze_evaluation_quality (lines 218-267); evaluator_details is held as
\* a function of the evaluator, response_entropy as the counts it is
\* computed from.
evaluation_quality(res) ==
    LET evaluators == { res[i].evaluator_id : i \in DOMAIN res }
        times == [i \in DOMAIN res |-> res[i].completion_time_seconds]
        of(evaluator) == { i \in DOMAIN res : res[i].evaluator_id = evaluator }
    IN  [total_evaluations |-> Len(res),
         unique_evaluators |-> Cardinality(evaluators),
         avg_time_per_evaluation |->
             IF res = <<>> THEN NaN ELSE Rat(SumSeq(times), Len(res)),
         median_time_per_evaluation |-> median_of(times),
         evaluator_details |->
             [evaluator \in evaluators |->
                 [evaluator_id |-> evaluator,
                  num_evaluations |-> Cardinality(of(evaluator)),
                  avg_time |-> Rat(SumOver(times, of(evaluator)),
                                   Cardinality(of(evaluator))),
                  response_entropy |->
                      [entropy_of |-> dimension_variance(res, evaluator)],
                  unique_responses |->
                      Cardinality(DOMAIN dimension_variance(res, evaluator))]]]

\* The two lists of lines 422-429, as the report gives them: their lengths.
quality_flags(details) ==
    [fast_evaluations |->
         Cardinality({ e \in DOMAIN details : RatLess(details[e].avg_time, Rat(30, 1)) }),
     low_entropy |->
         Cardinality({ e \in DOMAIN details :
                           entropy_below_half(details[e].response_entropy.entropy_of) })]

\* generate_report, in the order of its steps.  A step that raises ends
\* the call: the files written before it stay.  Step 2 raises whenever
\* calculate_inter_rater_reliability does; step 5 raises KeyError on an
\* empty performance frame, which has no column 'dimension' to pivot on
\* (line 323).
generate_report_outcome(comps, res) ==
    LET performance_df == model_performance(comps, res)
        irr == kappa_loop(res, 1, <<>>)
        scenario_df == analyze_by_scenario(comps, res)
        quality_metrics == evaluation_quality(res)
        step1 == {"model_performance.csv"}
        step4 == step1 \cup {"inter_rater_reliability.json", "scenario_analysis.csv",
                             "evaluation_quality.json"}
    IN  IF irr.raised # NoValue
            THEN [files |-> step1, raised |-> irr.raised, performance |-> performance_df,
                  irr |-> irr, scenario |-> {}, quality |-> NoValue, flags |-> NoValue]
        ELSE IF performance_df = {}
            THEN [files |-> step4, raised |-> "KeyError", performance |-> performance_df,
                  irr |-> irr, scenario |-> scenario_df, quality |-> quality_metrics,
                  flags |-> NoValue]
        ELSE [files |-> step4 \cup {"model_performance.png", "model_performance_error.png",
                                    "scenario_heatmap.png", "summary_report.md"},
              raised |-> NoValue, performance |-> performance_df,
              irr |-> irr, scenario |-> scenario_df, quality |-> quality_metrics,
              flags |-> quality_flags(quality_metrics.evaluator_details)]

\* The mutated quality analysis: it drops the results of the evaluators it
\* would flag from self.results.
analyze_evaluation_quality_excluding ==
    LET details == evaluation_quality(analyzer_results).evaluator_details
        flagged(e) == \/ RatLess(details[e].avg_time, Rat(30, 1))
                      \/ entropy_below_half(details[e].response_entropy.entropy_of)
        kept(result) == ~flagged(result.evaluator_id)
    IN  /\ analyzer_pc = "loaded"
        /\ analyzer_pc' = "assessed"
        /\ quality' = evaluation_quality(analyzer_results)
        /\ analyzer_results' = SelectSeq(analyzer_results, kept)
        /\ UNCHANGED <<store_vars, analyzer_comparisons, performance, binom_vars,
                       call_vars, reliability, np_random, report,
                       scenario_performance, statistics>>

\* A call of analyze_evaluation_quality on the analyzer.
analyze_evaluation_quality ==
    /\ analyzer_pc = "loaded"
    /\ analyzer_pc' = "assessed"
    /\ quality' = evaluation_quality(analyzer_results)
    /\ UNCHANGED <<store_vars, analyzer_comparisons, analyzer_results, performance,
                   binom_vars, call_vars, reliability, np_random, report,
                   scenario_performance, statistics>>

\* A call of generate_report on the analyzer.
generate_report ==
    LET outcome == generate_report_outcome(analyzer_comparisons, analyzer_results)
    IN  /\ analyzer_pc = "loaded"
        /\ analyzer_pc' = "report_done"
        /\ performance' = outcome.performance
        /\ reliability' = outcome.irr
        /\ quality' = outcome.quality
        /\ report' = [files |-> outcome.files, raised |-> outcome.raised,
                      flags |-> outcome.flags]
        /\ scenario_performance' = outcome.scenario
        /\ UNCHANGED <<store_vars, analyzer_comparisons, analyzer_results,
                       binom_vars, call_vars, np_random, statistics>>

\* An analyzer constructed on a store of results and comparisons.
ReportInit ==
    /\ comparisons \in ReportComparisonInputs
    /\ database = <<>>
    /\ results \in ReportResultLists
    /\ analyzer_pc = "loaded"
    /\ analyzer_comparisons = comparisons
    /\ analyzer_results = results
    /\ performance = {}
    /\ wins_a = 0 /\ wins_b = 0 /\ ties = 0 /\ exclude_ties = TRUE
    /\ binom_pc = "called"
    /\ binom_out = NoValue
    /\ call_pc = "none"
    /\ call_args = NoValue
    /\ call_out = NoValue
    /\ reliability = NoValue
    /\ np_random = 0
    /\ quality = NoValue
    /\ report = NoValue
    /\ scenario_performance = {}
    /\ statistics = NoValue

ReportNext ==
    \/ calculate_model_performance
    \/ calculate_inter_rater_reliability
    \/ analyze_evaluation_quality
    \/ generate_report

SpecReport == ReportInit /\ [][ReportNext]_vars

(***************************************************************************)
(* ABTestingFramework.create_comparison of eval/evaluation/ab_testing.py:  *)
(* the videos go to Tigris, the comparison to the database, and the coin   *)
(* is np.random.random() of numpy's global generator.                      *)
(***************************************************************************)

\* The URL of key f"experiments/{experiment_id}/comparisons/{comparison_id}/
\* model_a.mp4" (lines 263-264, 184-185).
video_url(comparison_id, slot) == [comparison_id |-> comparison_id, slot |-> slot]

\* np.random.random() < 0.5 when the generator is at g.
random_below_half(g) == 2 * g < GeneratorPeriod

\* The VideoComparison of lines 271-295.
tigris_comparison(comparison_id, model_a, model_b, swap) ==
    LET url_a == video_url(comparison_id, "model_a")
        url_b == video_url(comparison_id, "model_b")
    IN  [comparison_id |-> comparison_id,
         model_a_name |-> model_a,
         model_b_name |-> model_b,
         model_a_video_url |-> IF swap THEN url_b ELSE url_a,
         model_b_video_url |-> IF swap THEN url_a ELSE url_b,
         randomized_labels |-> IF swap THEN [A |-> model_b, B |-> model_a]
                                       ELSE [A |-> model_a, B |-> model_b]]

\* The row _save_comparison_to_database inserts (lines 195-218).
database_row(comparison) ==
    [id |-> comparison.comparison_id,
     modelA |-> comparison.model_a_name,
     modelB |-> comparison.model_b_name,
     videoAPath |-> comparison.model_a_video_url,
     videoBPath |-> comparison.model_b_video_url,
     metadata |-> [randomizedLabels |-> comparison.randomized_labels]]

\* create_comparison of eval/evaluation/ab_testing.py.  The generator is
\* drawn from only when randomize_order is set ('and' of line 272).
create_comparison_tigris(model_a, model_b, randomize_order) ==
    /\ analyzer_pc = "none"
    /\ Len(database) < MaxComparisons
    /\ LET comparison_id == Len(database) + 1
           swap == randomize_order /\ random_below_half(np_random)
       IN  database' = Append(database,
                 database_row(tigris_comparison(comparison_id, model_a, model_b, swap)))
    /\ np_random' = IF randomize_order THEN next_state(np_random) ELSE np_random
    /\ UNCHANGED <<comparisons, results, analyzer_vars, binom_vars, call_vars,
                   reliability, report_vars>>

\* Two frameworks with empty stores; numpy's generator is not seeded.
RandomizerInit ==
    /\ NothingElse
    /\ reliability = NoValue
    /\ np_random \in 0..(GeneratorPeriod - 1)
    /\ quality = NoValue
    /\ report = NoValue
    /\ scenario_performance = {}
    /\ statistics = NoValue
    /\ call_pc = "none"
    /\ call_args = NoValue
    /\ call_out = NoValue

RandomizerNext ==
    \/ \E model_a \in ModelNames, model_b \in ModelNames,
          randomize_order \in BOOLEAN, coin \in BOOLEAN :
            create_comparison(model_a, model_b, randomize_order, coin)
    \/ \E model_a \in ModelNames, model_b \in ModelNames, randomize_order \in BOOLEAN :
            create_comparison_tigris(model_a, model_b, randomize_order)

SpecRandomizer == RandomizerInit /\ [][RandomizerNext]_vars

(***************************************************************************)
(* run_statistical_tests (matrix-game-eval/scripts/analyze_results.py:71): *)
(* the comparison rows and the pairwise binomial tests.  The Bradley-Terry *)
(* fits and the correction that follow have their own specifications and   *)
(* leave binomial_results as it is.                                        *)
(***************************************************************************)

\* The choices a submission may carry: the three of the analysis and one
\* of EvaluationPrompts.RESPONSE_OPTIONS (prompts.py:104).
ChoiceInputs == Choices \cup {"Both are equally good"}

AggregateResultInputs ==
    [comparison_id : 1..3,
     evaluator_id : {"e1"},
     dimension_scores : [{"overall_quality"} -> ChoiceInputs]
                            \cup [{"overall_quality", "controllability"} -> {"B"}]]

AggregateResultLists ==
    UNION { [1..n -> AggregateResultInputs] : n \in 0..MaxAggregateResults }

\* A stored comparison as get_comparison loads it, with its scenario.
loaded_comparison(comparison_id, model_a, model_b, swap, scenario) ==
    to_dict(new_comparison(comparison_id, model_a, model_b, swap))
        @@ [scenario_metadata |-> scenario]

\* Two comparisons: m1 against m2 as created, and a second one that shows
\* the same pair the other way round, or another pair swapped, or one
\* model against itself.
AggregateComparisonInputs ==
    { <<loaded_comparison(1, "m1", "m2", FALSE, [biome |-> "desert"]), second>> :
          second \in { loaded_comparison(2, "m2", "m1", FALSE, [biome |-> "desert"]),
                       loaded_comparison(2, "m1", "m3", TRUE, [name |-> "s2"]),
                       loaded_comparison(2, "m1", "m1", FALSE, [biome |-> "desert"]) } }

\* Line 89.
winner_of(choice) == IF choice = "A" THEN "a" ELSE IF choice = "B" THEN "b" ELSE "tie"

\* comparison_data (lines 75-90): a row for every item of dimension_scores
\* of every result whose comparison is loaded.  index tells the rows apart.
comparison_data(comps, res) ==
    LET items == { <<i, d>> \in (DOMAIN res) \X (CanonicalDimensions \cup {"pacing"}) :
                       /\ res[i].comparison_id \in DOMAIN comps
                       /\ d \in DOMAIN res[i].dimension_scores }
    IN  { [index |-> item,
           comparison_id |-> res[item[1]].comparison_id,
           evaluator_id |-> res[item[1]].evaluator_id,
           dimension |-> item[2],
           model_a |-> comps[res[item[1]].comparison_id].randomized_labels["A"],
           model_b |-> comps[res[item[1]].comparison_id].randomized_labels["B"],
           winner |-> winner_of(res[item[1]].dimension_scores[item[2]])] :
              item \in items }

\* tuple(sorted([row['model_a'], row['model_b']])) (line 104).
sorted_pair(model_a, model_b) ==
    IF ModelRank[model_a] <= ModelRank[model_b]
        THEN <<model_a, model_b>> ELSE <<model_b, model_a>>

\* Lines 109-112.
pair_data(dim_data, model_a, model_b) ==
    { row \in dim_data :
          \/ row.model_a = model_a /\ row.model_b = model_b
          \/ row.model_a = model_b /\ row.model_b = model_a }

\* Lines 114-123: the rows the model won, as a or as b.
wins_of(rows, model) ==
    Cardinality({ row \in rows :
                      \/ row.model_a = model /\ row.winner = "a"
                      \/ row.model_b = model /\ row.winner = "b" })

\* f"{dimension}_{model_a}_vs_{model_b}" (line 127).
result_key(dimension, model_a, model_b) ==
    dimension \o "_" \o model_a \o "_vs_" \o model_b

\* The arguments of the calls of binomial_test (line 126), by the key the
\* result is stored under.
binomial_calls(rows) ==
    LET tests == { <<d, pair>> \in
                       CanonicalDimensions \X { sorted_pair(r.model_a, r.model_b) : r \in rows } :
                       \E r \in rows :
                           r.dimension = d /\ sorted_pair(r.model_a, r.model_b) = pair }
        key_of(test) == result_key(test[1], test[2][1], test[2][2])
    IN  [key \in { key_of(test) : test \in tests } |->
            LET test == CHOOSE t \in tests : key_of(t) = key
                dim_data == { r \in rows : r.dimension = test[1] }
                pair_rows == pair_data(dim_data, test[2][1], test[2][2])
            IN  [dimension |-> test[1],
                 model_a |-> test[2][1],
                 model_b |-> test[2][2],
                 wins_a |-> wins_of(pair_rows, test[2][1]),
                 wins_b |-> wins_of(pair_rows, test[2][2]),
                 ties |-> Cardinality({ r \in pair_rows : r.winner = "tie" })]]

\* run_statistical_tests up to binomial_results.  Without a row the frame
\* has no column 'dimension' and line 99 raises KeyError.
statistical_tests(comps, res) ==
    LET rows == comparison_data(comps, res)
        calls == binomial_calls(rows)
    IN  IF rows = {}
            THEN [raised |-> "KeyError", comparison_data |-> rows,
                  binomial_calls |-> <<>>, binomial_results |-> <<>>]
            ELSE [raised |-> NoValue, comparison_data |-> rows,
                  binomial_calls |-> calls,
                  binomial_results |->
                      [key \in DOMAIN calls |->
                          binomial_test(calls[key].wins_a, calls[key].wins_b,
                                        calls[key].ties, TRUE)]]

\* A call of run_statistical_tests on the analyzer.
run_statistical_tests ==
    /\ analyzer_pc = "loaded"
    /\ analyzer_pc' = "tested"
    /\ statistics' = statistical_tests(analyzer_comparisons, analyzer_results)
    /\ UNCHANGED <<store_vars, analyzer_comparisons, analyzer_results, performance,
                   binom_vars, call_vars, reliability, np_random, quality, report,
                   scenario_performance>>

\* A call of analyze_by_scenario on the analyzer.
analyze_by_scenario_called ==
    /\ analyzer_pc = "loaded"
    /\ analyzer_pc' = "analyzed"
    /\ scenario_performance' = analyze_by_scenario(analyzer_comparisons, analyzer_results)
    /\ UNCHANGED <<store_vars, analyzer_comparisons, analyzer_results, performance,
                   binom_vars, call_vars, reliability, np_random, quality, report,
                   statistics>>

\* An analyzer constructed on a store of results and comparisons.
AggregateInit ==
    /\ comparisons \in AggregateComparisonInputs
    /\ results \in AggregateResultLists
    /\ database = <<>>
    /\ analyzer_pc = "loaded"
    /\ analyzer_comparisons = comparisons
    /\ analyzer_results = results
    /\ performance = {}
    /\ wins_a = 0 /\ wins_b = 0 /\ ties = 0 /\ exclude_ties = TRUE
    /\ binom_pc = "called"
    /\ binom_out = NoValue
    /\ call_pc = "none"
    /\ call_args = NoValue
    /\ call_out = NoValue
    /\ reliability = NoValue
    /\ np_random = 0
    /\ quality = NoValue
    /\ report = NoValue
    /\ scenario_performance = {}
    /\ statistics = NoValue

AggregateNext ==
    \/ calculate_model_performance
    \/ analyze_by_scenario_called
    \/ run_statistical_tests

SpecAggregate == AggregateInit /\ [][AggregateNext]_vars

(***************************************************************************)
(* Properties.  The counts below are taken from the loaded records by set  *)
(* comprehension, not by the analyzer's loop.                              *)
(***************************************************************************)
Reported == analyzer_pc = "reported"

DimensionNames == CanonicalDimensions \cup UNION { DOMAIN f : f \in ScoreInputs }

\* The loaded results whose comparison_id resolves, and those of them with
\* an entry for dimension d.
KnownResults == { i \in DOMAIN analyzer_results :
                    analyzer_results[i].comparison_id \in DOMAIN analyzer_comparisons }
OrphanResults == DOMAIN analyzer_results \ KnownResults
Entries(d) == { i \in KnownResults : d \in DOMAIN analyzer_results[i].dimension_scores }

LabelsAt(i) == analyzer_comparisons[analyzer_results[i].comparison_id].randomized_labels
ChoiceAt(i, d) == analyzer_results[i].dimension_scores[d]
Compared(M, i) == M \in { LabelsAt(i)["A"], LabelsAt(i)["B"] }

WinCount(M, d) ==
    Cardinality({ i \in Entries(d) :
        Compared(M, i) /\ ChoiceAt(i, d) \in Labels /\ LabelsAt(i)[ChoiceAt(i, d)] = M })
LossCount(M, d) ==
    Cardinality({ i \in Entries(d) :
        Compared(M, i) /\ ChoiceAt(i, d) \in Labels /\ LabelsAt(i)[ChoiceAt(i, d)] # M })
TieCount(M, d) ==
    Cardinality({ i \in Entries(d) : Compared(M, i) /\ ChoiceAt(i, d) \notin Labels })

\* The outcomes model M receives in dimension d: one per side of a known
\* comparison that carries M, per evaluation with an entry for d.
Observations(M, d) ==
    Cardinality({ c \in Entries(d) \X Labels : LabelsAt(c[1])[c[2]] = M })

RowsOf(M, d) == { r \in performance : r.model = M /\ r.dimension = d }

RoundTripAt(M, d) ==
    LET W == WinCount(M, d)
        L == LossCount(M, d)
        T == TieCount(M, d)
    IN  W + L + T > 0 =>
            \E r \in RowsOf(M, d) :
                /\ RowsOf(M, d) = {r}
                /\ r.num_evaluations = W + L + T
                /\ r.win_rate = Rat(2 * W + T, 2 * (W + L + T))

\* C1: when every loaded result resolves to a loaded comparison, each
\* (model, dimension) with an observation has one row, with n = W + L + T
\* and win_rate = (W + T/2) / n, the choice being mapped through
\* randomized_labels.
C1_WinRateRoundTrip ==
    (Reported /\ OrphanResults = {}) =>
        \A M \in ModelNames, d \in DimensionNames : RoundTripAt(M, d)

\* The statement of C1 over record sets in which every comparison pairs two
\* different models.
C1_WinRateRoundTripTwoModels ==
    (/\ Reported
     /\ OrphanResults = {}
     /\ \A c \in DOMAIN analyzer_comparisons :
            analyzer_comparisons[c].model_a_name # analyzer_comparisons[c].model_b_name)
        => \A M \in ModelNames, d \in DimensionNames : RoundTripAt(M, d)

LabelsBijective(c) ==
    /\ DOMAIN c.randomized_labels = {"A", "B"}
    /\ { c.randomized_labels["A"], c.randomized_labels["B"] }
           = { c.model_a_name, c.model_b_name }
    /\ c.randomized_labels["A"] # c.randomized_labels["B"]

LabelsKept ==
    \A c \in DOMAIN comparisons :
        /\ c \in DOMAIN comparisons'
        /\ comparisons'[c].randomized_labels = comparisons[c].randomized_labels
        /\ (analyzer_pc' # "none" =>
               analyzer_comparisons'[c].randomized_labels
                   = comparisons[c].randomized_labels)

\* C2: a stored comparison of two models with different names maps "A" and
\* "B" onto the two names, one each, and no step changes the labels of a
\* comparison that exists (nor does loading it into an analyzer).
C2_LabelsBijectiveAndKept ==
    /\ [](\A c \in DOMAIN comparisons :
             comparisons[c].model_a_name # comparisons[c].model_b_name
                 => LabelsBijective(comparisons[c]))
    /\ [][LabelsKept]_vars

\* A swapped and an unswapped comparison of different models, with an
\* evaluation recorded and an analyzer loaded.
C2_Witness ==
    /\ Len(comparisons) = 2
    /\ comparisons[1].model_a_name # comparisons[1].model_b_name
    /\ comparisons[1].randomized_labels["A"] = comparisons[1].model_b_name
    /\ comparisons[2].model_a_name # comparisons[2].model_b_name
    /\ comparisons[2].randomized_labels["A"] = comparisons[2].model_a_name
    /\ Len(results) > 0
    /\ analyzer_pc = "loaded"

\* C3: no comparison whose two models have the same name is ever persisted.
C3_SameNameNeverPersisted ==
    \A c \in DOMAIN comparisons :
        comparisons[c].model_a_name # comparisons[c].model_b_name

WithoutOrphans ==
    SelectSeq(analyzer_results,
              LAMBDA r : r.comparison_id \in DOMAIN analyzer_comparisons)

\* The part of C4 about exclusion: the rows are those of the record set
\* with the unresolved results removed.
C4_OrphansExcluded ==
    Reported => performance = model_performance(analyzer_comparisons, WithoutOrphans)

\* C4: unresolved results add no outcome, and their number can be read off
\* what the aggregation returns: a record set with unresolved results never
\* returns what the same set without them returns.
C4_OrphansExcludedAndCounted ==
    Reported =>
        /\ performance = model_performance(analyzer_comparisons, WithoutOrphans)
        /\ (OrphanResults # {} =>
               model_performance(analyzer_comparisons, WithoutOrphans) # performance)

\* C5: no row is reported for a dimension outside the canonical set.
C5_NonCanonicalIgnored ==
    Reported => \A r \in performance : r.dimension \in CanonicalDimensions

ModelsInRecordSet ==
    UNION { { analyzer_comparisons[c].model_a_name,
              analyzer_comparisons[c].model_b_name } :
                c \in DOMAIN analyzer_comparisons }

Reorderings(s) ==
    { [i \in DOMAIN s |-> s[p[i]]] : p \in Permutations(DOMAIN s) }

SecondRunSame ==
    (analyzer_pc = "reported" /\ analyzer_pc' = "reported") =>
        /\ performance' = performance
        /\ analyzer_comparisons' = analyzer_comparisons
        /\ analyzer_results' = analyzer_results
        /\ comparisons' = comparisons
        /\ results' = results

FirstRunKeepsRecords ==
    (analyzer_pc = "loaded" /\ analyzer_pc' = "reported") =>
        /\ analyzer_comparisons' = analyzer_comparisons
        /\ analyzer_results' = analyzer_results
        /\ comparisons' = comparisons
        /\ results' = results

Returned == binom_pc = "returned"

\* n = 0 as the claim words it: no counts at all, or ties excluded and no
\* wins on either side.
EmptySample ==
    \/ wins_a = 0 /\ wins_b = 0 /\ ties = 0
    \/ exclude_ties /\ wins_a = 0 /\ wins_b = 0

\* C8: with an empty sample binomial_test returns p_value 1, win_rate_a
\* 0.5, the interval [0, 1] and significant false, and raises nothing.
C8_EmptySampleDefault ==
    (Returned /\ EmptySample) =>
        /\ "raised" \notin DOMAIN binom_out
        /\ binom_out.p_value = Rat(1, 1)
        /\ binom_out.win_rate_a = Rat(1, 2)
        /\ binom_out.ci_lower = Rat(0, 1)
        /\ binom_out.ci_upper = Rat(1, 1)
        /\ binom_out.significant = FALSE

\* A call with ties only, the ties excluded, has returned.
C8_Witness ==
    Returned /\ exclude_ties /\ ties > 0 /\ wins_a = 0 /\ wins_b = 0

ClaimedN == IF exclude_ties THEN wins_a + wins_b ELSE wins_a + wins_b + ties
ClaimedK2 == IF exclude_ties THEN 2 * wins_a ELSE 2 * wins_a + ties

\* C9: with ties excluded the result is that of the same call without
\* ties; n and k are as stated, 0 <= k <= n, and win_rate_a = k / n.
C9_TiesSplitEvenly ==
    Returned =>
        /\ exclude_ties => binom_out = binomial_test(wins_a, wins_b, 0, TRUE)
        /\ binomial_n(wins_a, wins_b, ties, exclude_ties) = ClaimedN
        /\ binomial_k2(wins_a, wins_b, ties, exclude_ties) = ClaimedK2
        /\ 0 <= ClaimedK2 /\ ClaimedK2 <= 2 * ClaimedN
        /\ ClaimedN > 0 => binom_out.win_rate_a = Rat(ClaimedK2, 2 * ClaimedN)

\* A call that splits an odd number of ties between two models with wins.
C9_Witness ==
    /\ Returned /\ ~exclude_ties
    /\ ties = 1 /\ wins_a > 0 /\ wins_b > 0
    /\ binom_out.win_rate_a = Rat(2 * wins_a + 1, 2 * (wins_a + wins_b + 1))

\* The two-sided exact p-value of k successes in n trials under p = 0.5,
\* times 2^n: the probability of an outcome at least as far from n/2 as k.
\* For a whole k these are the outcomes no more probable than k.
TwoSidedExact(k2, n) ==
    LET far == { i \in 0..n :
                   (IF 2 * i >= n THEN 2 * i - n ELSE n - 2 * i)
                       >= (IF k2 >= n THEN k2 - n ELSE n - k2) }
    IN  SumSeq([j \in 1..(n + 1) |-> IF (j - 1) \in far THEN Binomial(n, j - 1) ELSE 0])

PValueExact ==
    binom_out.p_value = Rat(TwoSidedExact(ClaimedK2, ClaimedN), Pow2(ClaimedN))

SignificantBelow5Percent ==
    binom_out.significant <=> (20 * binom_out.p_value.num < binom_out.p_value.den)

TenToNil ==
    (wins_a = 10 /\ wins_b = 0 /\ ties = 0) =>
        /\ 100 * binom_out.p_value.num < binom_out.p_value.den
        /\ binom_out.win_rate_a = Rat(1, 1)
        /\ binom_out.significant

\* C10: for n > 0 the p_value is the two-sided exact binomial p-value of k
\* successes in n trials, significant is p_value < 0.05, and ten wins to
\* none give p_value < 0.01, win_rate_a 1 and significant.
C10_ExactTwoSidedPValue ==
    (Returned /\ ClaimedN > 0) =>
        PValueExact /\ SignificantBelow5Percent /\ TenToNil

\* The statement of C10 for the calls whose k is a whole number.
C10_ExactTwoSidedPValueWholeK ==
    (Returned /\ ClaimedN > 0 /\ ClaimedK2 % 2 = 0) =>
        PValueExact /\ SignificantBelow5Percent /\ TenToNil

CallReturned == call_pc = "returned"

EqualDiscordant ==
    call_args.contingency_table[1][2] = call_args.contingency_table[2][1]

\* C11: a 2x2 table with equal discordant counts gives statistic 0,
\* p_value 1.0 and significant false, whatever the counts.
C11_EqualDiscordantNull ==
    (CallReturned /\ EqualDiscordant) =>
        /\ call_out.statistic = Rat(0, 1)
        /\ call_out.p_value = Rat(1, 1)
        /\ call_out.significant = FALSE

\* The statement of C11 for the tables the exact branch serves (b + c < 25),
\* and its last part (not significant) for every table.
C11_EqualDiscordantNullExactBranch ==
    (CallReturned /\ EqualDiscordant) =>
        /\ call_out.significant = FALSE
        /\ (2 * call_args.contingency_table[1][2] < 25 =>
               call_out.statistic = Rat(0, 1) /\ call_out.p_value = Rat(1, 1))

\* What the pending or finished call returns with the global generator at g.
BootstrapFrom(g) ==
    bootstrap_confidence_interval(call_args.scores_a, call_args.scores_b,
                                  call_args.n_bootstrap, g)

IndependentOfSharedState ==
    CallReturned => \A g \in 0..(GeneratorPeriod - 1) : BootstrapFrom(g) = call_out

GeneratorUntouched ==
    (call_pc = "called" /\ call_pc' = "returned") => np_random' = np_random

\* C12: what bootstrap_confidence_interval returns is fixed by its
\* arguments, whatever state the shared generator is in, and a call leaves
\* the shared generator where it was.
C12_BootstrapReproducible ==
    /\ []IndependentOfSharedState
    /\ [][GeneratorUntouched]_vars

\* A call of bradley_terry_model that reached the fit has ended.
FitAttempted ==
    /\ call_pc \in {"returned", "raised"}
    /\ non_tie_rows(call_args.comparison_results) # <<>>

\* What a design row and its response add to the likelihood: a row x with
\* response 0 adds what -x with response 1 adds.
Contribution(x, y) == IF y = 1 THEN x ELSE [j \in DOMAIN x |-> -x[j]]

Mirrored(row) ==
    [model_a |-> row.model_b, model_b |-> row.model_a,
     winner |-> IF row.winner = "a" THEN "b" ELSE IF row.winner = "b" THEN "a" ELSE "tie"]

\* The rows of X are as C13 says, with one column per model but the
\* reference model.
RowsAsClaimed(X, comparison_results) ==
    LET rows == non_tie_rows(comparison_results)
        models == bt_models(comparison_results)
    IN  /\ Len(X) = Len(rows)
        /\ \A i \in DOMAIN rows :
               /\ Len(X[i]) = Cardinality(models) - 1
               /\ \A m \in models :
                      model_to_idx(models, m) > 0 =>
                          X[i][model_to_idx(models, m)] =
                              (IF m = rows[i].model_a THEN 1
                               ELSE IF m = rows[i].model_b THEN -1 ELSE 0)

\* Replacing any record by its mirror image leaves every contribution as
\* it was.
MirrorInvariant(comparison_results) ==
    \A k \in DOMAIN comparison_results :
        LET other == [comparison_results EXCEPT ![k] = Mirrored(@)]
            exog == add_constant(design_X(comparison_results))
            endog == design_y(comparison_results)
            exog2 == add_constant(design_X(other))
            endog2 == design_y(other)
        IN  \A i \in DOMAIN exog :
                Contribution(exog[i], endog[i]) = Contribution(exog2[i], endog2[i])

\* C13: the regression is fitted to the non-tie records only, response 1
\* exactly for winner 'a', each design row +1 / -1 / 0 over one column per
\* non-reference model and nothing else, so that a record and its mirror
\* image contribute the same.
C13_DesignMatrix ==
    FitAttempted =>
        LET comparison_results == call_args.comparison_results
            rows == non_tie_rows(comparison_results)
            endog == design_y(comparison_results)
        IN  /\ \A i \in DOMAIN rows : endog[i] = 1 <=> rows[i].winner = "a"
            /\ RowsAsClaimed(add_constant(design_X(comparison_results)),
                             comparison_results)
            /\ MirrorInvariant(comparison_results)

\* The statement of C13 for X as built by the loop, before sm.add_constant.
C13_ContrastRows ==
    FitAttempted =>
        LET comparison_results == call_args.comparison_results
            rows == non_tie_rows(comparison_results)
            endog == design_y(comparison_results)
        IN  /\ \A i \in DOMAIN rows : endog[i] = 1 <=> rows[i].winner = "a"
            /\ RowsAsClaimed(design_X(comparison_results), comparison_results)
            /\ \A i \in DOMAIN rows :
                   Contribution(contrast(bt_models(comparison_results), rows[i]), endog[i])
                       = Contribution(contrast(bt_models(comparison_results),
                                               Mirrored(rows[i])),
                                      1 - endog[i])

\* The call returned from the try block: the fit gave coefficients and the
\* slice assignment went through.
FittedReturned ==
    /\ FitAttempted
    /\ call_pc = "returned"
    /\ ~call_out.result.raised
    /\ ~slice_assign_raises(Cardinality(bt_models(call_args.comparison_results)),
                            call_out.result.params)

\* The coefficient the fit gave to the column built for model m; 0 for the
\* reference model.  The column of ones, when there is one, comes first.
RawCoefficient(m) ==
    LET comparison_results == call_args.comparison_results
        models == bt_models(comparison_results)
        i == model_to_idx(models, m)
        ones == IF has_nonzero_const(design_X(comparison_results)) THEN 0 ELSE 1
    IN  IF i = 0 THEN 0 ELSE call_out.result.params[i + ones]

\* strength(m) - strength(n) = raw(m) - raw(n), in exact fractions.
DifferenceKept(m, n) ==
    LET sm == call_out.value[m].strength
        sn == call_out.value[n].strength
    IN  sm.num * sn.den - sn.num * sm.den
            = (RawCoefficient(m) - RawCoefficient(n)) * sm.den * sn.den

FittedAsClaimed ==
    LET models == bt_models(call_args.comparison_results)
        n_models == Cardinality(models)
        scaled == [m \in models |->
                      call_out.value[m].strength.num
                          * (n_models \div call_out.value[m].strength.den)]
    IN  /\ DOMAIN call_out.value = models
        /\ \A m \in models :
               DOMAIN call_out.value[m] = {"strength", "se", "win_probability"}
        /\ \A m \in models : n_models % call_out.value[m].strength.den = 0
        /\ SumOver(scaled, models) = 0
        /\ \A m \in models, n \in models : DifferenceKept(m, n)

\* C14: a fitted result reports every model of the input with strength,
\* se and win_probability; the strengths have zero mean and differ by what
\* the models' raw coefficients differ by.
C14_FittedStrengths == FittedReturned => FittedAsClaimed

\* The statement of C14 for the fits whose design got its column of ones.
C14_FittedStrengthsWithOnes ==
    (FittedReturned /\ ~has_nonzero_const(design_X(call_args.comparison_results)))
        => FittedAsClaimed

\* The fit raised, or what followed it in the try block did.
FitFailed ==
    \/ call_out.result.raised
    \/ slice_assign_raises(Cardinality(bt_models(call_args.comparison_results)),
                           call_out.result.params)

\* The share of the records naming m that m won.
EmpiricalRate(m) ==
    LET recs == call_args.comparison_results
        named == { i \in DOMAIN recs : m \in {recs[i].model_a, recs[i].model_b} }
        won == { i \in named : \/ recs[i].winner = "a" /\ recs[i].model_a = m
                               \/ recs[i].winner = "b" /\ recs[i].model_b = m }
    IN  Rat(Cardinality(won), Cardinality(named))

FallbackAsClaimed ==
    LET models == bt_models(call_args.comparison_results)
        rates == [m \in models |-> EmpiricalRate(m)]
        total == RatSumOver(rates, models)
        average == Rat(total.num, total.den * Cardinality(models))
    IN  /\ DOMAIN call_out.value = models
        /\ \A m \in models :
               /\ call_out.value[m].se = Inf
               /\ call_out.value[m].win_probability = rates[m]
               /\ call_out.value[m].strength =
                      [log_odds_of |-> rates[m], minus_log_odds_of |-> average]

\* C15: a call with at least one non-tie record raises nothing, and when
\* the fit failed it returns the fallback result for every model.
C15_FallbackNeverRaises ==
    FitAttempted =>
        /\ call_pc = "returned"
        /\ FitFailed => FallbackAsClaimed

\* The statement of C15 for the inputs in which no model won every record
\* that names it.
C15_FallbackWithoutSweep ==
    (/\ FitAttempted
     /\ \A m \in bt_models(call_args.comparison_results) : EmpiricalRate(m) # Rat(1, 1))
        => /\ call_pc = "returned"
           /\ FitFailed => FallbackAsClaimed

\* X, Y and Z are compared in every pair, X wins against Y and Z, and Y
\* wins against Z, in every record.
Dominance(X, Y, Z) ==
    LET recs == call_args.comparison_results
        Pair(i) == {recs[i].model_a, recs[i].model_b}
        Winner(i) == IF recs[i].winner = "a" THEN recs[i].model_a
                     ELSE IF recs[i].winner = "b" THEN recs[i].model_b
                     ELSE NoValue
    IN  /\ \A P \in {{X, Y}, {X, Z}, {Y, Z}} : \E i \in DOMAIN recs : Pair(i) = P
        /\ \A i \in DOMAIN recs :
               Winner(i) = (IF X \in Pair(i) THEN X ELSE Y)

\* a > b for two strengths of one result.  Fallback strengths share the
\* subtracted term, and log-odds grow with the rate.
StrengthGreater(a, b) ==
    IF "log_odds_of" \in DOMAIN a
        THEN RatLess(b.log_odds_of, a.log_odds_of)
        ELSE a.num * b.den > b.num * a.den

\* C16: under such a dominance the call returns strengths with
\* strength(X) > strength(Y) > strength(Z).
C16_DominanceOrdering ==
    \A X \in BTModels, Y \in BTModels, Z \in BTModels :
        (/\ Cardinality({X, Y, Z}) = 3
         /\ call_pc \in {"returned", "raised"}
         /\ Dominance(X, Y, Z))
            => /\ call_pc = "returned"
               /\ StrengthGreater(call_out.value[X].strength, call_out.value[Y].strength)
               /\ StrengthGreater(call_out.value[Y].strength, call_out.value[Z].strength)

\* p_values with its items in another insertion order.
Reordered(p_values) ==
    { [i \in DOMAIN p_values |-> p_values[perm[i]]] :
          perm \in Permutations(DOMAIN p_values) }

CorrectedAsClaimed ==
    LET names == { call_args.p_values[i].name : i \in DOMAIN call_args.p_values }
    IN  /\ DOMAIN call_out = names
        /\ \A i \in DOMAIN call_args.p_values :
               call_out[call_args.p_values[i].name].original_p = call_args.p_values[i].p
        /\ \A t \in names :
               /\ RatLeq(call_out[t].original_p, call_out[t].corrected_p)
               /\ RatLeq(call_out[t].corrected_p, Rat(1, 1))
        /\ \A t \in names, u \in names :
               RatLeq(call_out[t].original_p, call_out[u].original_p)
                   => RatLeq(call_out[t].corrected_p, call_out[u].corrected_p)
        /\ \A other \in Reordered(call_args.p_values) :
               \A sortind \in ArgSorts([i \in DOMAIN other |-> other[i].p]) :
                   multiple_comparison_correction(other, call_args.method, sortind)
                       = call_out

\* C17: for holm and fdr_bh the result has one entry per test, corrected
\* p-values between the original p and 1 that do not decrease as the
\* original p grows, and is the same for every order of the input items.
C17_CorrectionMonotone ==
    (CallReturned /\ call_args.method \in {"holm", "fdr_bh"}) => CorrectedAsClaimed

\* A returned correction of three tests, two of them with the same p,
\* where the correction changed a p-value without clipping it.
C17_Witness ==
    /\ CallReturned
    /\ call_args.method \in {"holm", "fdr_bh"}
    /\ Len(call_args.p_values) = 3
    /\ call_args.p_values[1].p = call_args.p_values[3].p
    /\ call_args.p_values[2].p # call_args.p_values[1].p
    /\ \E t \in DOMAIN call_out :
           /\ call_out[t].corrected_p # call_out[t].original_p
           /\ call_out[t].corrected_p # Rat(1, 1)

\* calculate_inter_rater_reliability has been called.
Rated == analyzer_pc = "rated"

\* The comparisons with two or more evaluations among the loaded results.
EligibleComparisons ==
    { c \in { analyzer_results[i].comparison_id : i \in DOMAIN analyzer_results } :
          Len(results_of(analyzer_results, c)) >= 2 }

\* Every evaluator of the comparison chose the same option in the dimension.
Unanimous(c, dimension) ==
    \A r1 \in DOMAIN analyzer_results, r2 \in DOMAIN analyzer_results :
        (analyzer_results[r1].comparison_id = c /\ analyzer_results[r2].comparison_id = c)
            => choice_of(analyzer_results[r1], dimension)
                   = choice_of(analyzer_results[r2], dimension)

\* The method returned a kappa of exactly 1.0 for the dimension.
KappaIsOne(dimension) ==
    /\ reliability.raised = NoValue
    /\ dimension \in DOMAIN reliability.kappa_scores
    /\ reliability.kappa_scores[dimension] = Rat(1, 1)

\* C18: when every eligible comparison is unanimous in a dimension, on the
\* same option or on different ones, the method returns kappa = 1.0 for it.
C18_UnanimousKappaOne ==
    \A dimension \in CanonicalDimensions :
        (/\ Rated
         /\ EligibleComparisons # {}
         /\ \A c \in EligibleComparisons : Unanimous(c, dimension))
            => KappaIsOne(dimension)

\* The rating matrix of the method was built and its proportions computed.
ProportionsComputed == Rated /\ reliability.raised = "TypeError"

\* The three p_j sum to 1 and P_e_bar is at most 1.
ProportionsOfAllVotes ==
    /\ RatSumOver(reliability.locals.p_j, DOMAIN VoteOrder) = Rat(1, 1)
    /\ RatLeq(reliability.locals.P_e_bar, Rat(1, 1))

\* C19: p_j is the proportion of all votes in category j: the p_j sum to 1
\* and P_e_bar <= 1, whatever the numbers of evaluators of the comparisons.
C19_ProportionsSumToOne == ProportionsComputed => ProportionsOfAllVotes

\* Every comparison of the rating matrix has as many votes as the first.
SameRaterCounts ==
    \A i \in DOMAIN reliability.locals.rating_array :
        SumSeq(reliability.locals.rating_array[i]) = reliability.locals.n_raters

\* C19, restricted: with the same number of evaluators on every eligible
\* comparison the p_j are the proportions of all votes.
C19_ProportionsWithSameRaterCounts ==
    (ProportionsComputed /\ SameRaterCounts) => ProportionsOfAllVotes

\* C20: a comparison with fewer than 2 evaluations is left out and raises
\* nothing, and a dimension without an eligible comparison gets an explicit
\* undefined result (NaN here), not a number and not a missing entry.
C20_IneligibleOmittedUndefinedExplicit ==
    Rated =>
        /\ reliability.raised = NoValue
        /\ EligibleComparisons = {} =>
               \A dimension \in CanonicalDimensions :
                   /\ dimension \in DOMAIN reliability.kappa_scores
                   /\ reliability.kappa_scores[dimension] = NaN

\* C20, the part that holds: comparisons with fewer than 2 evaluations
\* alone raise nothing and produce no number.
C20_IneligibleAloneRaiseNothing ==
    (Rated /\ EligibleComparisons = {}) =>
        /\ reliability.raised = NoValue
        /\ reliability.kappa_scores = <<>>

\* The band the claim gives a kappa of k hundredths.
ClaimedBand(k) ==
    CASE k < 0 -> "Poor agreement"
      [] 0 <= k /\ k < 20 -> "Slight agreement"
      [] 20 <= k /\ k < 40 -> "Fair agreement"
      [] 40 <= k /\ k < 60 -> "Moderate agreement"
      [] 60 <= k /\ k < 80 -> "Substantial agreement"
      [] k >= 80 -> "Almost perfect agreement"

\* C21: _interpret_kappa returns the band of the half-open intervals
\* <0, [0,0.20), [0.20,0.40), [0.40,0.60), [0.60,0.80), >=0.80, a boundary
\* value falling in the upper band.
C21_KappaBands == CallReturned => call_out = ClaimedBand(call_args.kappa)

\* The boundary 0.20 was interpreted, as fair agreement.
C21_Witness ==
    /\ CallReturned
    /\ call_args.kappa = 20
    /\ call_out = "Fair agreement"

\* The results of the store that count for a model in a dimension: the
\* comparison resolves, shows the model, and the result has the dimension.
Counting(model, dimension) ==
    { i \in DOMAIN results :
          /\ results[i].comparison_id \in DOMAIN analyzer_comparisons
          /\ \E label \in Labels :
                 analyzer_comparisons[results[i].comparison_id].randomized_labels[label]
                     = model
          /\ dimension \in DOMAIN results[i].dimension_scores }

\* Twice the score result i gives the model in the dimension.
DoubledScore(i, model, dimension) ==
    LET choice == results[i].dimension_scores[dimension]
        shown_as == CHOOSE label \in Labels :
            analyzer_comparisons[results[i].comparison_id].randomized_labels[label] = model
    IN  IF choice \in Labels THEN (IF choice = shown_as THEN 2 ELSE 0) ELSE 1

\* Every result of the store, whoever submitted it and however fast, is in
\* the n and the win_rate of the rows.
EveryResultInPerformance ==
    \A model \in ModelNames, dimension \in CanonicalDimensions :
        LET counting == Counting(model, dimension)
            rows == { r \in performance : r.model = model /\ r.dimension = dimension }
        IN  IF counting = {} THEN rows = {}
            ELSE /\ Cardinality(rows) = 1
                 /\ \A r \in rows :
                        /\ r.num_evaluations = Cardinality(counting)
                        /\ r.win_rate =
                               Rat(SumOver([i \in counting |->
                                               DoubledScore(i, model, dimension)], counting),
                                   2 * Cardinality(counting))

\* Every result of a comparison with two or more results is a vote of its
\* row of the rating matrix.
EveryResultInKappaMatrix ==
    LET rating_array == reliability.locals.rating_array
        eligible == SelectSeq(comparison_keys(results),
                              LAMBDA c : Len(results_of(results, c)) >= 2)
    IN  /\ Len(rating_array) = Len(eligible)
        /\ \A k \in DOMAIN eligible :
               SumSeq(rating_array[k]) = Len(results_of(results, eligible[k]))

\* C22: flagged evaluators are only reported: no analysis operation takes
\* a record out of the analyzer's results, and every result of the store
\* is in win_rate, n and the kappa matrix, whoever submitted it.
C22_FlaggedNeverExcluded ==
    /\ analyzer_results = results
    /\ analyzer_pc \in {"reported", "report_done"} => EveryResultInPerformance
    /\ (analyzer_pc \in {"rated", "report_done"} /\ reliability.raised = "TypeError")
           => EveryResultInKappaMatrix

\* A report was written in which every evaluator is flagged as fast and
\* the performance has the rows of their evaluations.
C22_Witness ==
    /\ analyzer_pc = "report_done"
    /\ report.raised = NoValue
    /\ report.flags.fast_evaluations = quality.unique_evaluators
    /\ report.flags.low_entropy > 0
    /\ performance # {}
    /\ "summary_report.md" \in report.files

\* generate_report ended, and its kappa step had raised.
KappaStepFailed == analyzer_pc = "report_done" /\ reliability.raised # NoValue

\* C25: when the kappa step fails, generate_report still delivers what is
\* computable without it: the model performance, the scenario analysis and
\* the summary report with the model-performance section.
C25_PartialReportDelivered ==
    KappaStepFailed =>
        {"model_performance.csv", "scenario_analysis.csv", "summary_report.md"}
            \subseteq report.files

\* C25, the part that holds: model_performance.csv is written before the
\* kappa step and stays.
C25_PerformanceFileWritten ==
    analyzer_pc = "report_done" => "model_performance.csv" \in report.files

\* C23: every stored EvaluationResult has the comparison_id of a stored
\* comparison.
C23_ResultsReferToComparisons ==
    \A i \in DOMAIN results : results[i].comparison_id \in DOMAIN comparisons

\* C24: the store holds at most one EvaluationResult for a pair of
\* comparison_id and evaluator_id.
C24_OneResultPerEvaluatorAndComparison ==
    \A i \in DOMAIN results, j \in DOMAIN results :
        (/\ results[i].comparison_id = results[j].comparison_id
         /\ results[i].evaluator_id = results[j].evaluator_id) => i = j

\* The model that generated the video at a location of a comparison: the
\* file or key "model_a" holds the video of the first model of the call.
GeneratedBy(location, model_a, model_b) ==
    IF location.slot = "model_a" THEN model_a ELSE model_b

\* C26: in every comparison create_comparison stored, the video of slot A
\* was generated by the model named randomized_labels["A"] and the video of
\* slot B by the one named randomized_labels["B"], swapped or not.
C26_LabelsAndVideosSwapTogether ==
    /\ \A i \in DOMAIN comparisons :
           LET c == comparisons[i]
           IN  /\ GeneratedBy(c.model_a_video_path, c.model_a_name, c.model_b_name)
                      = c.randomized_labels["A"]
               /\ GeneratedBy(c.model_b_video_path, c.model_a_name, c.model_b_name)
                      = c.randomized_labels["B"]
    /\ \A i \in DOMAIN database :
           LET row == database[i]
           IN  /\ GeneratedBy(row.videoAPath, row.modelA, row.modelB)
                      = row.metadata.randomizedLabels["A"]
               /\ GeneratedBy(row.videoBPath, row.modelA, row.modelB)
                      = row.metadata.randomizedLabels["B"]

\* Both stores hold a swapped comparison of two different models.
C26_Witness ==
    /\ \E i \in DOMAIN comparisons :
           /\ comparisons[i].model_a_name # comparisons[i].model_b_name
           /\ comparisons[i].randomized_labels["A"] = comparisons[i].model_b_name
    /\ \E i \in DOMAIN database :
           /\ database[i].modelA # database[i].modelB
           /\ database[i].metadata.randomizedLabels["A"] = database[i].modelB

\* C27: the locations shown in slots A and B are the same whether the swap
\* was taken or not.
C27_LocationsHideTheCoin ==
    /\ \A i \in DOMAIN comparisons : \A swap \in BOOLEAN :
           LET c == comparisons[i]
               other == new_comparison(c.comparison_id, c.model_a_name,
                                       c.model_b_name, swap)
           IN  /\ other.model_a_video_path = c.model_a_video_path
               /\ other.model_b_video_path = c.model_b_video_path
    /\ \A i \in DOMAIN database : \A swap \in BOOLEAN :
           LET row == database[i]
               other == tigris_comparison(row.id, row.modelA, row.modelB, swap)
           IN  /\ other.model_a_video_url = row.videoAPath
               /\ other.model_b_video_url = row.videoBPath

\* C27 for the database alone.
C27_UrlsHideTheCoin ==
    \A i \in DOMAIN database : \A swap \in BOOLEAN :
        LET row == database[i]
            other == tigris_comparison(row.id, row.modelA, row.modelB, swap)
        IN  /\ other.model_a_video_url = row.videoAPath
            /\ other.model_b_video_url = row.videoBPath

\* The appearances of a model in a dimension among the given results: a
\* result of a loaded comparison that has the dimension, and the label the
\* comparison shows the model under.
Appearances(res, model, dimension) ==
    { a \in (DOMAIN res) \X Labels :
          /\ res[a[1]].comparison_id \in DOMAIN analyzer_comparisons
          /\ dimension \in DOMAIN res[a[1]].dimension_scores
          /\ analyzer_comparisons[res[a[1]].comparison_id].randomized_labels[a[2]] = model }

\* Twice the score of an appearance: 1 for the chosen label, 0 for the
\* other one, 0.5 for every choice that is neither "A" nor "B".
TieScored(res, a, dimension) ==
    LET choice == res[a[1]].dimension_scores[dimension]
    IN  IF choice \in Labels THEN (IF choice = a[2] THEN 2 ELSE 0) ELSE 1

\* rows holds, for every model and dimension, the row of all appearances.
RowsScoreTies(rows, res) ==
    \A model \in BTModels, dimension \in CanonicalDimensions :
        LET appearances == Appearances(res, model, dimension)
            hit == { r \in rows : r.model = model /\ r.dimension = dimension }
        IN  IF appearances = {} THEN hit = {}
            ELSE /\ Cardinality(hit) = 1
                 /\ \A r \in hit :
                        /\ r.num_evaluations = Cardinality(appearances)
                        /\ r.win_rate =
                               Rat(SumOver([a \in appearances |->
                                               TieScored(res, a, dimension)], appearances),
                                   2 * Cardinality(appearances))

\* The results of the comparisons of a scenario.
ResultsOfScenario(scenario) ==
    LET in_scenario(result) ==
            /\ result.comparison_id \in DOMAIN analyzer_comparisons
            /\ biome_of(analyzer_comparisons[result.comparison_id]) = scenario
    IN  SelectSeq(analyzer_results, in_scenario)

\* Every item of a result of a loaded comparison is a row of
\* comparison_data, a tie unless the choice is "A" or "B".
RowsOfAllItems ==
    /\ \A i \in DOMAIN analyzer_results :
           analyzer_results[i].comparison_id \in DOMAIN analyzer_comparisons =>
               \A d \in DOMAIN analyzer_results[i].dimension_scores :
                   \E row \in statistics.comparison_data :
                       /\ row.index = <<i, d>>
                       /\ row.winner = "tie"
                              <=> analyzer_results[i].dimension_scores[d] \notin Labels
    /\ statistics.raised = NoValue <=> statistics.comparison_data # {}

\* C28: in calculate_model_performance, analyze_by_scenario and the winner
\* mapping of run_statistical_tests a choice that is not exactly "A" or
\* "B" counts as a tie, 0.5 for both models, and no choice makes a result
\* be left out.
C28_OtherChoicesAreTies ==
    /\ analyzer_pc = "reported" => RowsScoreTies(performance, analyzer_results)
    /\ analyzer_pc = "analyzed" =>
           \A scenario \in {"desert", "unknown"} :
               RowsScoreTies({ r \in scenario_performance : r.scenario = scenario },
                             ResultsOfScenario(scenario))
    /\ analyzer_pc = "tested" => RowsOfAllItems

\* A result with a choice outside "A", "B", "Equal" on a loaded comparison
\* is in the performance rows.
C28_Witness ==
    /\ analyzer_pc = "reported"
    /\ \E i \in DOMAIN analyzer_results :
           /\ analyzer_results[i].comparison_id \in DOMAIN analyzer_comparisons
           /\ analyzer_results[i].dimension_scores["overall_quality"] \notin Choices
    /\ \E r \in performance : r.win_rate = Rat(1, 2)

\* The rows of a dimension that compare the two models, either way round.
RowsOfPair(dimension, first, second) ==
    { row \in statistics.comparison_data :
          /\ row.dimension = dimension
          /\ {row.model_a, row.model_b} = {first, second} }

\* The rows of a pair that the model won, shown as A or as B.
RowsWonBy(rows, model) ==
    { row \in rows : \/ row.model_a = model /\ row.winner = "a"
                     \/ row.model_b = model /\ row.winner = "b" }

\* The pairs of a dimension, first-sorted model first.
PairsOf(dimension) ==
    { pair \in BTModels \X BTModels :
          /\ ModelRank[pair[1]] <= ModelRank[pair[2]]
          /\ RowsOfPair(dimension, pair[1], pair[2]) # {} }

BinomialResultsAsClaimed ==
    LET tests == { <<d, pair>> \in CanonicalDimensions \X (BTModels \X BTModels) :
                       pair \in PairsOf(d) }
        key_of(test) == result_key(test[1], test[2][1], test[2][2])
    IN  /\ DOMAIN statistics.binomial_results = { key_of(test) : test \in tests }
        /\ \A t1 \in tests, t2 \in tests : key_of(t1) = key_of(t2) => t1 = t2
        /\ \A test \in tests :
               LET call == statistics.binomial_calls[key_of(test)]
                   rows == RowsOfPair(test[1], test[2][1], test[2][2])
               IN  /\ call.wins_a = Cardinality(RowsWonBy(rows, test[2][1]))
                   /\ call.wins_a + call.wins_b + call.ties = Cardinality(rows)
                   /\ statistics.binomial_results[key_of(test)]
                          = binomial_test(call.wins_a, call.wins_b, call.ties, TRUE)

\* run_statistical_tests got as far as binomial_results.
TestsRun == analyzer_pc = "tested" /\ statistics.raised = NoValue

\* C30: for every dimension and every unordered pair of models with a row,
\* binomial_results has exactly one entry, keyed by the dimension and the
\* two names in sorted order; wins_a is the number of rows the first-sorted
\* model won, and wins_a + wins_b + ties is the number of rows of the pair.
C30_OneBinomialResultPerPair == TestsRun => BinomialResultsAsClaimed

\* No loaded comparison shows a model against itself.
DistinctModelsCompared ==
    \A c \in DOMAIN analyzer_comparisons :
        analyzer_comparisons[c].model_a_name # analyzer_comparisons[c].model_b_name

\* C30, restricted to comparisons of two different models.
C30_OneBinomialResultPerPairOfDistinctModels ==
    (TestsRun /\ DistinctModelsCompared) => BinomialResultsAsClaimed

\* The comparisons of the analyzer's results with two or more evaluations,
\* in the order of the rows of the rating matrix.
RowComparisons ==
    SelectSeq(comparison_keys(analyzer_results),
              LAMBDA c : Len(results_of(analyzer_results, c)) >= 2)

\* The evaluations of a comparison that have no entry for the dimension.
WithoutEntry(comp_id, dimension) ==
    { i \in DOMAIN analyzer_results :
          /\ analyzer_results[i].comparison_id = comp_id
          /\ dimension \notin DOMAIN analyzer_results[i].dimension_scores }

\* The evaluations of a comparison that chose the vote in the dimension.
WithEntry(comp_id, dimension, vote) ==
    { i \in DOMAIN analyzer_results :
          /\ analyzer_results[i].comparison_id = comp_id
          /\ dimension \in DOMAIN analyzer_results[i].dimension_scores
          /\ analyzer_results[i].dimension_scores[dimension] = vote }

\* A rating matrix of the dimension in which every evaluation of a row's
\* comparison is one vote, an evaluation without entry an "Equal" vote.
MissingCountedAsEqual(rating_array, dimension) ==
    /\ Len(rating_array) = Len(RowComparisons)
    /\ \A k \in DOMAIN RowComparisons :
           /\ rating_array[k][1] = Cardinality(WithEntry(RowComparisons[k], dimension, "A"))
           /\ rating_array[k][2] = Cardinality(WithEntry(RowComparisons[k], dimension, "B"))
           /\ rating_array[k][3] =
                  Cardinality(WithEntry(RowComparisons[k], dimension, "Equal"))
                      + Cardinality(WithoutEntry(RowComparisons[k], dimension))
           /\ SumSeq(rating_array[k])
                  = Len(results_of(analyzer_results, RowComparisons[k]))

\* The rows of performance count, for a model and a dimension, the
\* evaluations that have an entry for the dimension and no others.
NoOutcomeWithoutEntry ==
    \A model \in ModelNames, d \in DOMAIN DimensionOrder :
        LET shown == { i \in DOMAIN analyzer_results :
                         /\ analyzer_results[i].comparison_id \in DOMAIN analyzer_comparisons
                         /\ \E label \in Labels :
                                analyzer_comparisons[analyzer_results[i].comparison_id]
                                    .randomized_labels[label] = model }
            entered == { i \in shown :
                           DimensionOrder[d] \in DOMAIN analyzer_results[i].dimension_scores }
            rows == { r \in performance :
                        r.model = model /\ r.dimension = DimensionOrder[d] }
        IN  /\ entered = {} => rows = {}
            /\ \A r \in rows : r.num_evaluations = Cardinality(entered)

\* C29: an evaluation without an entry for a dimension is one "Equal" vote
\* of its comparison's row in the rating matrix of that dimension, so the
\* votes of a row add up to the number of evaluations of the comparison, in
\* the matrix the method built and in the matrices of all four dimensions;
\* in calculate_model_performance the same evaluation is no outcome of the
\* dimension.
C29_MissingDimensionIsEqualVoteButNoOutcome ==
    /\ (analyzer_pc \in {"rated", "report_done"} /\ reliability.raised = "TypeError")
           => /\ MissingCountedAsEqual(reliability.locals.rating_array,
                                       reliability.locals.dimension)
              /\ \A d \in DOMAIN DimensionOrder :
                     MissingCountedAsEqual(
                         rating_matrix(analyzer_results, DimensionOrder[d]),
                         DimensionOrder[d])
    /\ analyzer_pc \in {"reported", "report_done"} => NoOutcomeWithoutEntry

\* A report ran on two evaluations of one comparison that have no entry for
\* overall_quality: they are the two "Equal" votes of its row, and the
\* models have rows for controllability and none for overall_quality.
C29_Witness ==
    /\ analyzer_pc = "report_done"
    /\ reliability.raised = "TypeError"
    /\ reliability.locals.dimension = "overall_quality"
    /\ \E k \in DOMAIN RowComparisons :
           /\ RowComparisons[k] \in DOMAIN analyzer_comparisons
           /\ Cardinality(WithoutEntry(RowComparisons[k], "overall_quality")) = 2
           /\ reliability.locals.rating_array[k] = <<0, 0, 2>>
    /\ \E r \in performance : r.dimension = "controllability" /\ r.num_evaluations = 2
    /\ \A r \in performance : r.dimension # "overall_quality"

====
